---- MODULE Spec2Model ----
(***************************************************************************)
(* A model of the APA 7 citation generator (src/src/App.tsx).              *)
(*                                                                         *)
(* Cell values of the parsed CSV are JavaScript strings; they are modelled *)
(* as sequences of one-character strings so that trim, split, includes and *)
(* the regular expressions of the source can be computed as the source     *)
(* computes them.  undefined and '' are both falsy and are both modelled   *)
(* by the empty sequence.  Identifiers, citation-type codes and messages   *)
(* are only ever built by concatenation and compared, and are modelled as  *)
(* TLA+ strings.  A JavaScript object is a function whose domain is the    *)
(* set of properties that have been assigned.  activeTab, showDebug and the *)
(* debug log only decide what is displayed and are left out.               *)
(***************************************************************************)
EXTENDS Integers, Sequences, FiniteSets, TLC

(***************************************************************************)
(* Bounds of the model.                                                    *)
(***************************************************************************)
\* The largest number of data rows a parsed CSV holds.
MaxRows == 3

\* The largest number of pieces an author cell is made of.
MaxAuthorTokens == 4

\* The largest number of pieces a spreadsheet URL is made of.
MaxUrlTokens == 4

(***************************************************************************)
(* JavaScript string primitives.                                           *)
(***************************************************************************)
WhiteSpace == {" ", "\t"}

Digits == {"0", "1", "2", "3", "4", "5", "6", "7", "8", "9"}

UpperChars == <<"A", "B", "C", "D", "E", "F", "G", "H", "I", "J", "K", "L", "M",
                "N", "O", "P", "Q", "R", "S", "T", "U", "V", "W", "X", "Y", "Z">>

LowerChars == <<"a", "b", "c", "d", "e", "f", "g", "h", "i", "j", "k", "l", "m",
                "n", "o", "p", "q", "r", "s", "t", "u", "v", "w", "x", "y", "z">>

\* A value is truthy when it is a non-empty string ('' and undefined are falsy).
Truthy(s) == s # <<>>

ToLowerChar(c) ==
    IF \E i \in 1..26 : UpperChars[i] = c
    THEN LowerChars[CHOOSE i \in 1..26 : UpperChars[i] = c]
    ELSE c

\* String.prototype.toLowerCase
ToLowerCase(s) == [i \in 1..Len(s) |-> ToLowerChar(s[i])]

RECURSIVE TrimStart(_)
TrimStart(s) ==
    IF s # <<>> /\ Head(s) \in WhiteSpace THEN TrimStart(Tail(s)) ELSE s

RECURSIVE TrimEnd(_)
TrimEnd(s) ==
    IF s # <<>> /\ s[Len(s)] \in WhiteSpace
    THEN TrimEnd(SubSeq(s, 1, Len(s) - 1))
    ELSE s

\* String.prototype.trim
Trim(s) == TrimEnd(TrimStart(s))

\* sub occurs in s at (1-based) position i
OccursAt(s, sub, i) ==
    /\ i >= 1
    /\ i + Len(sub) - 1 <= Len(s)
    /\ SubSeq(s, i, i + Len(sub) - 1) = sub

\* String.prototype.includes
Includes(s, sub) == \E i \in 1..(Len(s) + 1) : OccursAt(s, sub, i)

\* String.prototype.startsWith
StartsWith(s, sub) == OccursAt(s, sub, 1)

\* String.prototype.split with a non-empty separator
RECURSIVE Split(_, _)
Split(s, sep) ==
    IF Includes(s, sep)
    THEN LET i == CHOOSE k \in 1..Len(s) :
                      /\ OccursAt(s, sep, k)
                      /\ \A j \in 1..(k - 1) : ~OccursAt(s, sep, j)
         IN  <<SubSeq(s, 1, i - 1)>> \o Split(SubSeq(s, i + Len(sep), Len(s)), sep)
    ELSE <<s>>

\* String.prototype.split(sep, limit): the first limit pieces of the full split
SplitLimit(s, sep, limit) ==
    LET all == Split(s, sep)
    IN  IF Len(all) > limit THEN SubSeq(all, 1, limit) ELSE all

\* Array.prototype.join
RECURSIVE Join(_, _)
Join(parts, sep) ==
    IF parts = <<>> THEN <<>>
    ELSE IF Len(parts) = 1 THEN parts[1]
    ELSE parts[1] \o sep \o Join(Tail(parts), sep)

\* Array.prototype.map(a => a.trim())
MapTrim(parts) == [i \in 1..Len(parts) |-> Trim(parts[i])]

\* The length of the longest run of digits of s that starts at position i.
RECURSIVE DigitRun(_, _)
DigitRun(s, i) ==
    IF i <= Len(s) /\ s[i] \in Digits THEN 1 + DigitRun(s, i + 1) ELSE 0

\* The length of the longest run of white space of s that starts at position i.
RECURSIVE SpaceRun(_, _)
SpaceRun(s, i) ==
    IF i <= Len(s) /\ s[i] \in WhiteSpace THEN 1 + SpaceRun(s, i + 1) ELSE 0

DigitValue(c) == CHOOSE n \in 0..9 : ToString(n) = c

RECURSIVE DigitsToInt(_)
DigitsToInt(ds) ==
    IF ds = <<>> THEN 0
    ELSE 10 * DigitsToInt(SubSeq(ds, 1, Len(ds) - 1)) + DigitValue(ds[Len(ds)])

\* parseInt(s, 10): leading white space, an optional sign, then the longest run
\* of digits; NaN when there is no digit.
ParseInt(s) ==
    LET t    == TrimStart(s)
        neg  == t # <<>> /\ Head(t) = "-"
        sgn  == t # <<>> /\ Head(t) \in {"-", "+"}
        from == IF sgn THEN 2 ELSE 1
        n    == DigitRun(t, from)
        v    == DigitsToInt(SubSeq(t, from, from + n - 1))
    IN  IF n = 0 THEN [nan |-> TRUE, value |-> 0]
        ELSE [nan |-> FALSE, value |-> IF neg THEN 0 - v ELSE v]

(***************************************************************************)
(* mapSourceType                                                           *)
(***************************************************************************)
\* The synonym table, as <<key, citation type>> pairs.
mapping ==
    << <<<<"j", "o", "u", "r", "n", "a", "l", " ", "a", "r", "t", "i", "c", "l", "e">>,
         "article-journal">>,
       <<<<"j", "o", "u", "r", "n", "a", "l">>,
         "article-journal">>,
       <<<<"a", "r", "t", "i", "c", "l", "e">>,
         "article-journal">>,
       <<<<"n", "e", "w", "s", " ", "a", "r", "t", "i", "c", "l", "e">>,
         "article-newspaper">>,
       <<<<"n", "e", "w", "s", "p", "a", "p", "e", "r">>,
         "article-newspaper">>,
       <<<<"m", "a", "g", "a", "z", "i", "n", "e">>,
         "article-magazine">>,
       <<<<"b", "o", "o", "k">>,
         "book">>,
       <<<<"b", "o", "o", "k", " ", "c", "h", "a", "p", "t", "e", "r">>,
         "chapter">>,
       <<<<"c", "h", "a", "p", "t", "e", "r">>,
         "chapter">>,
       <<<<"c", "o", "n", "f", "e", "r", "e", "n", "c", "e", " ", "p", "a", "p", "e", "r">>,
         "paper-conference">>,
       <<<<"c", "o", "n", "f", "e", "r", "e", "n", "c", "e">>,
         "paper-conference">>,
       <<<<"t", "h", "e", "s", "i", "s">>,
         "thesis">>,
       <<<<"d", "i", "s", "s", "e", "r", "t", "a", "t", "i", "o", "n">>,
         "thesis">>,
       <<<<"r", "e", "p", "o", "r", "t">>,
         "report">>,
       <<<<"w", "e", "b", "p", "a", "g", "e">>,
         "webpage">>,
       <<<<"w", "e", "b", "s", "i", "t", "e">>,
         "webpage">>,
       <<<<"b", "l", "o", "g", " ", "p", "o", "s", "t">>,
         "post-weblog">>,
       <<<<"b", "l", "o", "g">>,
         "post-weblog">>,
       <<<<"r", "e", "v", "i", "e", "w">>,
         "review">> >>

\* The table is an object literal, so a lookup also finds the members it
\* inherits from Object.prototype; these are the ones with a lower-case name.
ObjectPrototypeKeys ==
    { <<"c", "o", "n", "s", "t", "r", "u", "c", "t", "o", "r">>,
      <<"_", "_", "p", "r", "o", "t", "o", "_", "_">> }

\* What such a lookup yields: a function or an object, not a string.
InheritedMember == "[Object.prototype member]"

mapSourceType(rawType) ==
    IF ~Truthy(rawType) THEN "article-journal"
    ELSE LET type == Trim(ToLowerCase(rawType))
         IN  IF \E i \in 1..Len(mapping) : mapping[i][1] = type
             THEN mapping[CHOOSE i \in 1..Len(mapping) : mapping[i][1] = type][2]
             ELSE IF type \in ObjectPrototypeKeys THEN InheritedMember
             ELSE "webpage"

\* authorList splitting the fragments again on the next delimiters.
authorListResplit(authorStr) ==
    LET bySemicolon == MapTrim(Split(authorStr, <<";">>))
        again(list, sep) ==
            LET RECURSIVE flat(_)
                flat(l) == IF l = <<>> THEN <<>>
                           ELSE MapTrim(Split(Head(l), sep)) \o flat(Tail(l))
            IN  flat(list)
    IN  again(again(bySemicolon, <<" ", "&", " ">>), <<" ", "a", "n", "d", " ">>)

(***************************************************************************)
(* parseAuthors                                                            *)
(***************************************************************************)
\* The list of fragments: split on ';', else on ' & ', else on ' and '.
authorList(authorStr) ==
    IF Includes(authorStr, <<";">>)
    THEN MapTrim(Split(authorStr, <<";">>))
    ELSE IF Includes(authorStr, <<" ", "&", " ">>)
    THEN MapTrim(Split(authorStr, <<" ", "&", " ">>))
    ELSE IF Includes(authorStr, <<" ", "a", "n", "d", " ">>)
    THEN MapTrim(Split(authorStr, <<" ", "a", "n", "d", " ">>))
    ELSE <<authorStr>>

\* The entries one fragment contributes (none, or one): the body of the loop.
authorEntry(author) ==
    IF ~Truthy(author) THEN <<>>
    ELSE IF Includes(author, <<",">>)
    THEN LET parts == MapTrim(SplitLimit(author, <<",">>, 2))
         IN  IF Len(parts) = 2 /\ Truthy(parts[1]) /\ Truthy(parts[2])
             THEN <<[family |-> parts[1], given |-> parts[2]]>>
             ELSE <<>>
    ELSE LET parts == Split(author, <<" ">>)
         IN  IF Len(parts) > 1 /\ Len(parts[1]) > 1
             THEN <<[family |-> parts[Len(parts)],
                     given  |-> Join(SubSeq(parts, 1, Len(parts) - 1), <<" ">>)]>>
             ELSE <<[literal |-> author]>>

RECURSIVE authorEntries(_)
authorEntries(list) ==
    IF list = <<>> THEN <<>>
    ELSE authorEntry(Head(list)) \o authorEntries(Tail(list))

parseAuthors(authorCell) ==
    IF ~Truthy(authorCell) \/ ~Truthy(Trim(authorCell)) THEN <<>>
    ELSE authorEntries(authorList(Trim(authorCell)))

(***************************************************************************)
(* parseVolumeIssue                                                        *)
(*                                                                         *)
(* A pattern is a sequence of elements: "digits" is the capturing group    *)
(* (\d+), "ws" is \s*, "opt" is an optional character and "lit" is one     *)
(* character out of a set (both cases of a letter under the i flag).  In   *)
(* each of the four patterns every greedy element is followed by an        *)
(* element that cannot start with a character the greedy one accepts, so   *)
(* the longest match of each element is the only one the regular           *)
(* expression engine can succeed with.                                     *)
(***************************************************************************)
\* The en dash and the em dash, each one character of the text.
EnDash == "u2013"

EmDash == "u2014"

PDigits == [k |-> "digits"]

PWs == [k |-> "ws"]

POpt(c) == [k |-> "opt", c |-> c]

PLit(cs) == [k |-> "lit", cs |-> cs]

\* patterns with the dash pattern tried first.
patternsDashFirst ==
    << <<PDigits, PWs, PLit({"-", EnDash, EmDash}), PWs, PDigits>>,
       <<PDigits, PWs, PLit({"("}), PWs, PDigits, PWs, PLit({")"})>>,
       <<PLit({"v", "V"}), PLit({"o", "O"}), PLit({"l", "L"}), POpt("."), PWs, PDigits,
         PWs, PLit({"n", "N"}), PLit({"o", "O"}), POpt("."), PWs, PDigits>>,
       <<PLit({"v", "V"}), POpt("."), PWs, PDigits,
         PWs, PLit({"n", "N"}), POpt("."), PWs, PDigits>> >>

patterns ==
    << <<PDigits, PWs, PLit({"("}), PWs, PDigits, PWs, PLit({")"})>>,
       <<PLit({"v", "V"}), PLit({"o", "O"}), PLit({"l", "L"}), POpt("."), PWs, PDigits,
         PWs, PLit({"n", "N"}), PLit({"o", "O"}), POpt("."), PWs, PDigits>>,
       <<PLit({"v", "V"}), POpt("."), PWs, PDigits,
         PWs, PLit({"n", "N"}), POpt("."), PWs, PDigits>>,
       <<PDigits, PWs, PLit({"-", EnDash, EmDash}), PWs, PDigits>> >>

NoMatch == [ok |-> FALSE, caps |-> <<>>]

\* The groups captured when pat matches text from position i on.
RECURSIVE MatchFrom(_, _, _, _)
MatchFrom(text, pat, i, caps) ==
    IF pat = <<>> THEN [ok |-> TRUE, caps |-> caps]
    ELSE LET e == Head(pat)
         IN  CASE e.k = "digits" ->
                    LET n == DigitRun(text, i)
                    IN  IF n = 0 THEN NoMatch
                        ELSE MatchFrom(text, Tail(pat), i + n,
                                       Append(caps, SubSeq(text, i, i + n - 1)))
               [] e.k = "ws" ->
                    MatchFrom(text, Tail(pat), i + SpaceRun(text, i), caps)
               [] e.k = "opt" ->
                    IF i <= Len(text) /\ text[i] = e.c
                    THEN MatchFrom(text, Tail(pat), i + 1, caps)
                    ELSE MatchFrom(text, Tail(pat), i, caps)
               [] e.k = "lit" ->
                    IF i <= Len(text) /\ text[i] \in e.cs
                    THEN MatchFrom(text, Tail(pat), i + 1, caps)
                    ELSE NoMatch

\* text.match(pattern): the leftmost match, or no match (null).
Match(text, pat) ==
    IF \E i \in 1..Len(text) : MatchFrom(text, pat, i, <<>>).ok
    THEN MatchFrom(text, pat,
                   CHOOSE i \in 1..Len(text) :
                       /\ MatchFrom(text, pat, i, <<>>).ok
                       /\ \A j \in 1..(i - 1) : ~MatchFrom(text, pat, j, <<>>).ok,
                   <<>>)
    ELSE NoMatch

\* null, which the callers only test for truthiness, is the empty sequence.
Null == <<>>

RECURSIVE firstMatch(_, _)
firstMatch(text, k) ==
    IF k > Len(patterns)
    THEN IF text # <<>> /\ \A i \in 1..Len(text) : text[i] \in Digits
         THEN [volume |-> text, issue |-> Null]
         ELSE [volume |-> Null, issue |-> Null]
    ELSE LET m == Match(text, patterns[k])
         IN  IF m.ok THEN [volume |-> m.caps[1], issue |-> m.caps[2]]
             ELSE firstMatch(text, k + 1)

parseVolumeIssue(cell) ==
    IF ~Truthy(cell) THEN [volume |-> Null, issue |-> Null]
    ELSE firstMatch(Trim(cell), 1)

(***************************************************************************)
(* createCslItem                                                           *)
(*                                                                         *)
(* A row is a function from the column names of the CSV header to cells.   *)
(***************************************************************************)
\* row[col]: undefined (modelled as '') when the row has no such column
Cell(row, col) == IF col \in DOMAIN row THEN row[col] ELSE <<>>

\* row[c1] || row[c2] || ... : the first truthy cell, else a falsy value
RECURSIVE FirstTruthy(_, _)
FirstTruthy(row, cols) ==
    IF cols = <<>> THEN <<>>
    ELSE IF Truthy(Cell(row, Head(cols))) THEN Cell(row, Head(cols))
    ELSE FirstTruthy(row, Tail(cols))

\* item[key] = val
SetProp(item, key, val) == (key :> val) @@ item

HasProp(item, key) == key \in DOMAIN item

HttpPrefix == <<"h", "t", "t", "p">>

DoiHost == <<"d", "o", "i", ".", "o", "r", "g", "/">>

DoiPrefix == <<"1", "0", ".">>

\* doi.replace(/^https?:\/\/doi\.org\//, '')
StripResolver(doi) ==
    IF StartsWith(doi, <<"h", "t", "t", "p", "s", ":", "/", "/", "d", "o", "i", ".", "o", "r", "g", "/">>)
    THEN SubSeq(doi, 17, Len(doi))
    ELSE IF StartsWith(doi, <<"h", "t", "t", "p", ":", "/", "/", "d", "o", "i", ".", "o", "r", "g", "/">>)
    THEN SubSeq(doi, 16, Len(doi))
    ELSE doi

\* itemBase with one id for every row.
itemBaseSameId(row, index) ==
    [id   |-> "item_1",
     type |-> mapSourceType(FirstTruthy(row, <<"Source Type", "type">>))]

\* lines 191-194: the id and the type
itemBase(row, index) ==
    [id   |-> "item_" \o ToString(index + 1),
     type |-> mapSourceType(FirstTruthy(row, <<"Source Type", "type">>))]

\* lines 196-201
withTitle(item, row) ==
    LET title == FirstTruthy(row, <<"Title", "title">>)
    IN  IF Truthy(title) THEN SetProp(item, "title", Trim(title)) ELSE item

\* lines 203-208
withAuthor(item, row) ==
    LET authors == parseAuthors(FirstTruthy(row, <<"Author(s)", "Authors", "Author", "author">>))
    IN  IF Len(authors) > 0 THEN SetProp(item, "author", authors) ELSE item

\* lines 210-215
withIssued(item, row) ==
    LET year == FirstTruthy(row, <<"Year", "Publication Year", "Date", "year">>)
    IN  IF Truthy(year) /\ ~ParseInt(year).nan
        THEN SetProp(item, "issued", ("date-parts" :> << <<ParseInt(year).value>> >>))
        ELSE item

\* lines 217-220
withContainerTitle(item, row) ==
    LET containerTitle == FirstTruthy(row, <<"Journal", "Publication", "Container Title",
                                             "Source", "container-title">>)
    IN  IF Truthy(containerTitle)
        THEN SetProp(item, "container-title", Trim(containerTitle))
        ELSE item

\* withVolumeIssue with the Issue column read before the issue of the volume cell.
withVolumeIssueColumnFirst(item, row) ==
    LET volIss == parseVolumeIssue(FirstTruthy(row, <<"Volume", "Volume-Issue", "volume">>))
        issue  == FirstTruthy(row, <<"Issue", "issue">>)
        i1     == IF Truthy(volIss.volume) THEN SetProp(item, "volume", volIss.volume)
                  ELSE item
    IN  IF Truthy(issue) THEN SetProp(i1, "issue", Trim(issue))
        ELSE IF Truthy(volIss.issue) THEN SetProp(i1, "issue", volIss.issue)
        ELSE i1

\* lines 222-225
withVolumeIssue(item, row) ==
    LET volIss == parseVolumeIssue(FirstTruthy(row, <<"Volume", "Volume-Issue", "volume">>))
        issue  == FirstTruthy(row, <<"Issue", "issue">>)
        i1     == IF Truthy(volIss.volume) THEN SetProp(item, "volume", volIss.volume)
                  ELSE item
    IN  IF Truthy(volIss.issue) THEN SetProp(i1, "issue", volIss.issue)
        ELSE IF Truthy(issue) THEN SetProp(i1, "issue", Trim(issue))
        ELSE i1

\* withPage reading the capitalised column names only.
withPageCapitalised(item, row) ==
    LET pages == FirstTruthy(row, <<"Pages", "Page Range", "Page">>)
    IN  IF Truthy(pages) THEN SetProp(item, "page", Trim(pages)) ELSE item

\* lines 227-228
withPage(item, row) ==
    LET pages == FirstTruthy(row, <<"Pages", "Page Range", "Page", "page">>)
    IN  IF Truthy(pages) THEN SetProp(item, "page", Trim(pages)) ELSE item

\* lines 230-244
withDoi(item, row) ==
    LET doiField == FirstTruthy(row, <<"DOI", "DOI/URL", "doi">>)
        doi      == Trim(doiField)
    IN  IF ~Truthy(doiField) THEN item
        ELSE IF StartsWith(doi, HttpPrefix)
        THEN IF Includes(doi, DoiHost)
             THEN SetProp(item, "DOI", StripResolver(doi))
             ELSE SetProp(item, "URL", doi)
        ELSE IF StartsWith(doi, DoiPrefix) THEN SetProp(item, "DOI", doi)
        ELSE item

\* item.DOI, item.URL, item.title, ... read for truthiness
TruthyProp(item, key) == HasProp(item, key) /\ Truthy(item[key])

\* lines 246-251
withUrl(item, row) ==
    LET url == FirstTruthy(row, <<"URL", "url">>)
    IN  IF /\ Truthy(url)
           /\ ~TruthyProp(item, "DOI")
           /\ ~TruthyProp(item, "URL")
           /\ StartsWith(Trim(url), HttpPrefix)
        THEN SetProp(item, "URL", Trim(url))
        ELSE item

\* lines 253-255
withPublisher(item, row) ==
    LET publisher == FirstTruthy(row, <<"Publisher", "publisher">>)
    IN  IF Truthy(publisher) THEN SetProp(item, "publisher", Trim(publisher)) ELSE item

\* index is the 0-based position of the row
createCslItem(row, index) ==
    withPublisher(
      withUrl(
        withDoi(
          withPage(
            withVolumeIssue(
              withContainerTitle(
                withIssued(
                  withAuthor(
                    withTitle(itemBase(row, index), row), row), row), row), row), row),
          row), row), row)

\* jsonData.map((row, index) => createCslItem(row, index))
buildItems(jsonData) == [i \in 1..Len(jsonData) |-> createCslItem(jsonData[i], i - 1)]

\* itemErrors asking for a title whether or not the item has an author.
itemErrorsTitleOnly(item, index) ==
    (IF ~TruthyProp(item, "title")
     THEN <<"Item " \o ToString(index + 1) \o ": Missing both title and author">>
     ELSE <<>>)
    \o
    (IF item.type = "article-journal" /\ ~TruthyProp(item, "container-title")
     THEN <<"Item " \o ToString(index + 1) \o ": Journal articles require a journal name">>
     ELSE <<>>)

(***************************************************************************)
(* validateCslItems                                                        *)
(***************************************************************************)
\* itemErrors of one item; index is its 0-based position
itemErrors(item, index) ==
    (IF ~TruthyProp(item, "title") /\ ~HasProp(item, "author")
     THEN <<"Item " \o ToString(index + 1) \o ": Missing both title and author">>
     ELSE <<>>)
    \o
    (IF item.type = "article-journal" /\ ~TruthyProp(item, "container-title")
     THEN <<"Item " \o ToString(index + 1) \o ": Journal articles require a journal name">>
     ELSE <<>>)

\* validateFrom reporting an item under the 1-based position of its successor.
RECURSIVE validateFromShifted(_, _, _, _)
validateFromShifted(items, k, valid, errors) ==
    IF k > Len(items) THEN [valid |-> valid, errors |-> errors]
    ELSE IF Len(itemErrors(items[k], k)) = 0
    THEN validateFromShifted(items, k + 1, Append(valid, items[k]), errors)
    ELSE validateFromShifted(items, k + 1, valid, errors \o itemErrors(items[k], k))

\* the forEach loop, from the item at 1-based position k on
RECURSIVE validateFrom(_, _, _, _)
validateFrom(items, k, valid, errors) ==
    IF k > Len(items) THEN [valid |-> valid, errors |-> errors]
    ELSE IF Len(itemErrors(items[k], k - 1)) = 0
    THEN validateFrom(items, k + 1, Append(valid, items[k]), errors)
    ELSE validateFrom(items, k + 1, valid, errors \o itemErrors(items[k], k - 1))

validateCslItems(items) == validateFrom(items, 1, <<>>, <<>>)

(***************************************************************************)
(* buildCsvUrl                                                             *)
(***************************************************************************)
\* [a-zA-Z0-9-_]
IdChars ==
    {UpperChars[i] : i \in 1..26} \cup {LowerChars[i] : i \in 1..26} \cup Digits \cup {"-", "_"}

\* The length of the longest run of id characters of s that starts at position i.
RECURSIVE IdRun(_, _)
IdRun(s, i) ==
    IF i <= Len(s) /\ s[i] \in IdChars THEN 1 + IdRun(s, i + 1) ELSE 0

\* /\/d\/([a-zA-Z0-9-_]+)/ matches s from position i on
\* SheetIdAt without the + of the character class: the marker alone matches.
SheetIdAtNoId(s, i) == OccursAt(s, <<"/", "d", "/">>, i)

SheetIdAt(s, i) == OccursAt(s, <<"/", "d", "/">>, i) /\ IdRun(s, i + 3) > 0

ExportPrefix ==
    <<"h", "t", "t", "p", "s", ":", "/", "/", "d", "o", "c", "s", ".", "g", "o", "o",
      "g", "l", "e", ".", "c", "o", "m", "/", "s", "p", "r", "e", "a", "d", "s", "h",
      "e", "e", "t", "s", "/", "d", "/">>

ExportSuffix ==
    <<"/", "e", "x", "p", "o", "r", "t", "?", "f", "o", "r", "m", "a", "t", "=", "c",
      "s", "v", "&", "g", "i", "d", "=", "0">>

InvalidUrlMessage ==
    "Invalid Google Sheets URL format. Please ensure you're using a sharing URL."

\* The export URL, or the error thrown.
buildCsvUrl(shareUrl) ==
    IF \E i \in 1..Len(shareUrl) : SheetIdAt(shareUrl, i)
    THEN LET i == CHOOSE k \in 1..Len(shareUrl) :
                      /\ SheetIdAt(shareUrl, k)
                      /\ \A j \in 1..(k - 1) : ~SheetIdAt(shareUrl, j)
             id == SubSeq(shareUrl, i + 3, i + 2 + IdRun(shareUrl, i + 3))
         IN  [threw |-> FALSE, url |-> ExportPrefix \o id \o ExportSuffix]
    ELSE [threw |-> TRUE, message |-> InvalidUrlMessage]

StyleUrl ==
    <<"h", "t", "t", "p", "s", ":", "/", "/", "r", "a", "w", ".", "g", "i", "t", "h",
      "u", "b", "u", "s", "e", "r", "c", "o", "n", "t", "e", "n", "t", ".", "c", "o",
      "m", "/", "c", "i", "t", "a", "t", "i", "o", "n", "-", "s", "t", "y", "l", "e",
      "-", "l", "a", "n", "g", "u", "a", "g", "e", "/", "s", "t", "y", "l", "e", "s",
      "/", "m", "a", "s", "t", "e", "r", "/", "a", "p", "a", ".", "c", "s", "l">>

LocaleUrl ==
    <<"h", "t", "t", "p", "s", ":", "/", "/", "r", "a", "w", ".", "g", "i", "t", "h",
      "u", "b", "u", "s", "e", "r", "c", "o", "n", "t", "e", "n", "t", ".", "c", "o",
      "m", "/", "c", "i", "t", "a", "t", "i", "o", "n", "-", "s", "t", "y", "l", "e",
      "-", "l", "a", "n", "g", "u", "a", "g", "e", "/", "l", "o", "c", "a", "l", "e",
      "s", "/", "m", "a", "s", "t", "e", "r", "/", "l", "o", "c", "a", "l", "e", "s",
      "-", "e", "n", "-", "U", "S", ".", "x", "m", "l">>

(***************************************************************************)
(* generateCitations                                                       *)
(***************************************************************************)
\* n as a decimal numeral, for n >= 0
RECURSIVE NumStr(_)
NumStr(n) ==
    IF n < 10 THEN <<ToString(n)>> ELSE NumStr(n \div 10) \o <<ToString(n % 10)>>

\* tempDiv.innerHTML = html; tempDiv.textContent: the text outside the tags
RECURSIVE textContent(_, _)
textContent(html, inTag) ==
    IF html = <<>> THEN <<>>
    ELSE IF inTag
    THEN textContent(Tail(html), Head(html) # ">")
    ELSE IF Head(html) = "<" THEN textContent(Tail(html), TRUE)
    ELSE <<Head(html)>> \o textContent(Tail(html), FALSE)

\* replace(/\s+/g, ' ')
RECURSIVE collapseSpace(_)
collapseSpace(s) ==
    IF s = <<>> THEN <<>>
    ELSE IF Head(s) \in WhiteSpace
    THEN <<" ">> \o collapseSpace(SubSeq(s, 1 + SpaceRun(s, 1), Len(s)))
    ELSE <<Head(s)>> \o collapseSpace(Tail(s))

\* lines 343-345
cleanText(citationHtml) == Trim(collapseSpace(textContent(citationHtml, FALSE)))

ProcessingPlaceholder ==
    <<"E", "r", "r", "o", "r", " ", "p", "r", "o", "c", "e", "s", "s", "i", "n", "g",
      " ", "c", "i", "t", "a", "t", "i", "o", "n", " ">>

\* What the thrown value prints as in a template string.
Thrown == "Error: engine failure"

\* lines 341-354: one fragment; index is its 0-based position.  A fragment is
\* the markup together with whether extracting its text throws.
processFragment(frag, index) ==
    IF frag.throws
    THEN [citation |-> ProcessingPlaceholder \o NumStr(index + 1),
          errors   |-> <<"Failed to process citation " \o ToString(index + 1) \o ": " \o Thrown>>]
    ELSE [citation |-> cleanText(frag.html), errors |-> <<>>]

\* processFragments with one try around the whole loop: the first fragment
\* whose text cannot be extracted ends the batch.
RECURSIVE processFragmentsAbort(_, _)
processFragmentsAbort(frags, k) ==
    IF k > Len(frags) THEN [citations |-> <<>>, errors |-> <<>>]
    ELSE LET one  == processFragment(frags[k], k - 1)
             rest == IF frags[k].throws
                     THEN [citations |-> <<>>, errors |-> <<>>]
                     ELSE processFragmentsAbort(frags, k + 1)
         IN  [citations |-> <<one.citation>> \o rest.citations,
              errors    |-> one.errors \o rest.errors]

\* lines 340-355: bib[1].map, from the fragment at 1-based position k on
RECURSIVE processFragments(_, _)
processFragments(frags, k) ==
    IF k > Len(frags) THEN [citations |-> <<>>, errors |-> <<>>]
    ELSE LET one  == processFragment(frags[k], k - 1)
             rest == processFragments(frags, k + 1)
         IN  [citations |-> <<one.citation>> \o rest.citations,
              errors    |-> one.errors \o rest.errors]

StyleRoot == <<"<", "s", "t", "y", "l", "e">>

\* lines 366-371: the outer catch
renderFailure(message, itemIDs) ==
    [citations |-> <<>>,
     errors    |-> <<"Citation generation failed: Error: " \o message>>,
     itemIDs   |-> itemIDs,
     bib       |-> <<>>]

\* engineGlobal: window.CSL || window.citeproc || window.CiteprocEngine is defined.
\* engine: what the rendering engine does in this call, see EngineBehaviours.
\* itemIDs in the result are the ids handed to engine.updateItems, if it was reached,
\* and bib the fragments of line 339, if there were any.
generateCitations(cslItems, cslStyle, locale, engineGlobal, engine) ==
    LET itemIDs == [i \in 1..Len(cslItems) |-> cslItems[i].id]
    IN  IF ~engineGlobal
        THEN renderFailure("CSL library not loaded. Please refresh the page and try again.", <<>>)
        ELSE IF ~Truthy(cslStyle) \/ ~Includes(cslStyle, StyleRoot)
        THEN renderFailure("Invalid CSL style: not a valid XML document", <<>>)
        ELSE IF engine.construct = "throws"
        THEN renderFailure("Failed to initialize citation engine: " \o Thrown, <<>>)
        ELSE IF engine.update = "throws"
        THEN renderFailure("Failed to update citation items: " \o Thrown, itemIDs)
        ELSE IF engine.bib = "throws"
        THEN renderFailure("Failed to generate bibliography: " \o Thrown, itemIDs)
        ELSE IF Len(engine.fragments) = 0
        THEN renderFailure("Failed to generate bibliography: "
                           \o "Error: Bibliography generation returned empty result", itemIDs)
        ELSE LET done == processFragments(engine.fragments, 1)
             IN  [citations |-> done.citations, errors |-> done.errors,
                  itemIDs |-> itemIDs, bib |-> engine.fragments]

(***************************************************************************)
(* The result assembler of handleGeneration                                *)
(***************************************************************************)
CitationColumn == "APA 7 Citation"

SkippedSentinel ==
    <<"S", "k", "i", "p", "p", "e", "d", " ", "d", "u", "e", " ", "t", "o", " ", "v",
      "a", "l", "i", "d", "a", "t", "i", "o", "n", " ", "e", "r", "r", "o", "r", "s",
      ".">>

CouldNotGenerate ==
    <<"E", "r", "r", "o", "r", ":", " ", "C", "o", "u", "l", "d", " ", "n", "o", "t",
      " ", "g", "e", "n", "e", "r", "a", "t", "e", " ", "c", "i", "t", "a", "t", "i",
      "o", "n", ".">>

NoValidItemsMessage == "No valid citation items found. Please check your data format."

\* items.findIndex(item => item.id === id), 1-based; 0 when there is none (-1)
FindIndexById(items, id) ==
    IF \E i \in 1..Len(items) : items[i].id = id
    THEN CHOOSE i \in 1..Len(items) :
             /\ items[i].id = id
             /\ \A j \in 1..(i - 1) : items[j].id # id
    ELSE 0

\* line 497: the number the warning reports
skippedCount(cslItems, validItems) == Len(cslItems) - Len(cslItems)

\* lines 494-498
buildWarnings(cslItems, validItems) ==
    IF Len(validItems) < Len(cslItems)
    THEN <<ToString(skippedCount(cslItems, validItems))
           \o " items were skipped due to validation errors">>
    ELSE <<>>

\* rowCitation with the rendered citations looked up by the position of the
\* row instead of the position of its item among the valid items.
rowCitationByRow(index, cslItems, validItems, citations) ==
    IF index + 1 <= Len(citations) /\ Truthy(citations[index + 1])
    THEN citations[index + 1]
    ELSE CouldNotGenerate

\* rowCitation without the sentinel: a rejected row is treated as a row whose
\* citation is missing.
rowCitationNoSentinel(index, cslItems, validItems, citations) ==
    LET validIndex == FindIndexById(validItems, "item_" \o ToString(index + 1))
    IN  IF validIndex # 0 /\ validIndex <= Len(citations) /\ Truthy(citations[validIndex])
        THEN citations[validIndex]
        ELSE CouldNotGenerate

\* lines 501-507: the citation of the row at 0-based position index
rowCitation(index, cslItems, validItems, citations) ==
    LET corresponding == FindIndexById(cslItems, "item_" \o ToString(index + 1))
        validIndex    == IF corresponding = 0 THEN 0
                         ELSE FindIndexById(validItems, cslItems[corresponding].id)
    IN  IF validIndex # 0
        THEN IF validIndex <= Len(citations) /\ Truthy(citations[validIndex])
             THEN citations[validIndex]
             ELSE CouldNotGenerate
        ELSE SkippedSentinel

\* finalCsvData mapped over the rows of the valid items only.
finalCsvDataValidOnly(jsonData, cslItems, validItems, citations) ==
    LET kept == SelectSeq([i \in 1..Len(jsonData) |-> i],
                          LAMBDA i : FindIndexById(validItems, "item_" \o ToString(i)) # 0)
    IN  [k \in 1..Len(kept) |->
            SetProp(jsonData[kept[k]], CitationColumn,
                    rowCitation(kept[k] - 1, cslItems, validItems, citations))]

\* lines 500-510
finalCsvData(jsonData, cslItems, validItems, citations) ==
    [i \in 1..Len(jsonData) |->
        SetProp(jsonData[i], CitationColumn,
                rowCitation(i - 1, cslItems, validItems, citations))]

\* fatalResult without the message in the error list.
fatalResultNoMessage(errorMessage) ==
    [success   |-> FALSE,
     citations |-> <<>>,
     errors    |-> <<>>,
     warnings  |-> <<>>,
     csvData   |-> <<>>]

\* lines 530-536: the result stored by the catch block
fatalResult(errorMessage) ==
    [success   |-> FALSE,
     citations |-> <<>>,
     errors    |-> <<errorMessage>>,
     warnings  |-> <<>>,
     csvData   |-> <<>>]

(***************************************************************************)
(* The environment: the files, the sheet and the rendering engine          *)
(***************************************************************************)
RowBook ==
    ("Title" :> <<"T", "1">>) @@ ("Source Type" :> <<"B", "o", "o", "k">>)
    @@ ("Year" :> <<"2", "0", "2", "0">>) @@ ("Publisher" :> <<"P">>)
    @@ (CitationColumn :> <<"o", "l", "d">>)

RowJournal ==
    ("Title" :> <<"T", "2">>) @@ ("Author(s)" :> <<"S", "m", "i", "t", "h", ",", " ", "J">>)
    @@ ("Journal" :> <<"J">>) @@ ("Volume" :> <<"1", "2", "(", "3", ")">>)
    @@ ("DOI" :> <<"1", "0", ".", "1", "/", "x">>)

RowAuthorOnly ==
    ("Author" :> <<"A", "c", "m", "e">>) @@ ("Source Type" :> <<"z", "z", "z">>)
    @@ ("URL" :> <<"h", "t", "t", "p", ":", "/", "/", "u">>)

RowNoJournal ==
    ("Title" :> <<"T", "4">>) @@ ("Author" :> <<"J", "o", "h", "n", " ", "D", "o", "e">>)
    @@ ("Pages" :> <<"1", "-", "9">>)

RowBlankTitle ==
    ("Title" :> <<" ">>) @@ ("Author" :> <<",">>) @@ ("Source Type" :> <<"b", "o", "o", "k">>)
    @@ ("Year" :> <<"n", "d">>)

RowEmpty ==
    ("Title" :> <<>>) @@ ("Author" :> <<>>) @@ ("Journal" :> <<" ">>) @@ ("Issue" :> <<"2">>)

\* As RowBook for the validator, with other bibliographic fields.
RowReport ==
    ("Title" :> <<"T", "7">>) @@ ("Source Type" :> <<"r", "e", "p", "o", "r", "t">>)
    @@ ("Volume" :> <<"4">>) @@ ("Issue" :> <<"2">>) @@ ("Pages" :> <<"9">>)
    @@ ("DOI" :> <<"1", "0", ".", "2", "/", "y">>)

\* As RowNoJournal for the validator, with other bibliographic fields.
RowNoJournalDoi ==
    ("Title" :> <<"T", "8">>) @@ ("Author" :> <<"A", "n", "n", " ", "L", "e", "e">>)
    @@ ("Year" :> <<"1", "9", "9", "9">>) @@ ("Publisher" :> <<"Q">>)
    @@ ("Volume" :> <<"3", "-", "4">>) @@ ("DOI" :> <<"1", "0", ".", "3", "/", "z">>)
    @@ ("URL" :> <<"h", "t", "t", "p", ":", "/", "/", "v">>)

\* The rows the parsed CSV of a run is made of.
SampleRows == {RowBook, RowJournal, RowEmpty}

\* The rows the validator is exercised on.
ValidatorRows ==
    {RowBook, RowJournal, RowAuthorOnly, RowNoJournal, RowBlankTitle, RowEmpty,
     RowReport, RowNoJournalDoi}

\* Source types as users write them: the keys of the synonym table, some of
\* them capitalised, and words the table does not list.
TypeWords ==
    { mapping[i][1] : i \in 1..Len(mapping) }
    \cup
    { <<"J", "o", "u", "r", "n", "a", "l", " ", "A", "r", "t", "i", "c", "l", "e">>,
      <<"B", "O", "O", "K">>,
      <<"T", "h", "e", "s", "i", "s">>,
      <<"B", "l", "o", "g", " ", "P", "o", "s", "t">>,
      <<"z", "z", "z">>,
      <<"t", "o", "s", "t", "r", "i", "n", "g">>,
      <<"c", "o", "n", "s", "t", "r", "u", "c", "t", "o", "r">>,
      <<"C", "o", "n", "s", "t", "r", "u", "c", "t", "o", "r">>,
      <<"_", "_", "p", "r", "o", "t", "o", "_", "_">>,
      <<>> }

\* The cells of a 'Source Type' column: a word with or without blanks around it.
TypeCells ==
    { before \o word \o after :
        before \in {<<>>, <<" ">>}, word \in TypeWords, after \in {<<>>, <<" ">>, <<"\t">>} }

\* The pieces author cells are written with: a one-letter and a two-letter
\* word, the comma, the blank and the three delimiters.
AuthorTokens ==
    { <<"a">>, <<"B", "o">>, <<",">>, <<" ">>, <<";">>, <<" ", "&", " ">>,
      <<" ", "a", "n", "d", " ">> }

\* The texts made of exactly n of the given pieces.
RECURSIVE TextsOfLen(_, _)
TextsOfLen(tokens, n) ==
    IF n = 0 THEN {<<>>}
    ELSE {t \o x : t \in TextsOfLen(tokens, n - 1), x \in tokens}

\* Author cells as users write them.
AuthorExamples ==
    { <<"S", "m", "i", "t", "h", ",", " ", "J", ";", " ", "D", "o", "e", ",", " ", "A", "n", "n", " ", "&", " ", "L", "e", "e">>,
      <<"A", "n", "n", " ", "L", "e", "e", " ", "a", "n", "d", " ", "B", "o", " ", "a">>,
      <<"a", " ", "&", " ", "a", " ", "a", "n", "d", " ", "a">>,
      <<"a", ";", "a", " ", "&", " ", "a">>,
      <<"a", ";", "a", " ", "a", "n", "d", " ", "a">>,
      <<"S", "m", "i", "t", "h", ",", " ", "J", "o", "h", "n", ",", " ", "J", "r", ".">>,
      <<"B", "o", ",", " ", "a", ",", " ", "a">>,
      <<"A", "n", "n", " ", " ", "L", "e", "e">>,
      <<"B", "o", " ", "a", " ", "a">>,
      <<"J", " ", "S", "m", "i", "t", "h">>,
      <<"A", "c", "m", "e", " ", "C", "o", "r", "p">>,
      <<"A", "n", "n", "\t", "L", "e", "e">> }

\* The cells of an author column: every text of up to MaxAuthorTokens pieces,
\* and the examples.
AuthorCells ==
    UNION {TextsOfLen(AuthorTokens, n) : n \in 0..MaxAuthorTokens} \cup AuthorExamples

\* The capitalised column names createCslItem reads, each with its lower-case
\* spelling, the lower-case key createCslItem reads for the same field, and
\* cells of such a column.
AliasColumns ==
    { [column |-> "Title", lower |-> "title", key |-> "title",
        cells |-> {<<"T", "1">>, <<" ", "T", " ", "2", " ">>, <<"x">>}],
      [column |-> "Author(s)", lower |-> "author(s)", key |-> "author",
        cells |-> {<<"S", "m", "i", "t", "h", ",", " ", "J">>, <<"A", "n", "n", " ", "L", "e", "e", ";", " ", "B", "o">>, <<"A", "c", "m", "e">>}],
      [column |-> "Authors", lower |-> "authors", key |-> "author",
        cells |-> {<<"S", "m", "i", "t", "h", ",", " ", "J">>, <<"A", "n", "n", " ", "L", "e", "e", ";", " ", "B", "o">>, <<"A", "c", "m", "e">>}],
      [column |-> "Author", lower |-> "author", key |-> "author",
        cells |-> {<<"S", "m", "i", "t", "h", ",", " ", "J">>, <<"A", "n", "n", " ", "L", "e", "e", ";", " ", "B", "o">>, <<"A", "c", "m", "e">>}],
      [column |-> "Year", lower |-> "year", key |-> "year",
        cells |-> {<<"2", "0", "2", "0">>, <<"1", "9", "9", "9", "a">>, <<"n", "d">>}],
      [column |-> "Publication Year", lower |-> "publication year", key |-> "year",
        cells |-> {<<"2", "0", "2", "0">>, <<"1", "9", "9", "9", "a">>, <<"n", "d">>}],
      [column |-> "Date", lower |-> "date", key |-> "year",
        cells |-> {<<"2", "0", "2", "0">>, <<"1", "9", "9", "9", "a">>, <<"n", "d">>}],
      [column |-> "Journal", lower |-> "journal", key |-> "container-title",
        cells |-> {<<"J">>, <<" ", "N", " ", "M", " ">>, <<"x">>}],
      [column |-> "Publication", lower |-> "publication", key |-> "container-title",
        cells |-> {<<"J">>, <<" ", "N", " ", "M", " ">>, <<"x">>}],
      [column |-> "Container Title", lower |-> "container title", key |-> "container-title",
        cells |-> {<<"J">>, <<" ", "N", " ", "M", " ">>, <<"x">>}],
      [column |-> "Source", lower |-> "source", key |-> "container-title",
        cells |-> {<<"J">>, <<" ", "N", " ", "M", " ">>, <<"x">>}],
      [column |-> "Volume", lower |-> "volume", key |-> "volume",
        cells |-> {<<"1", "2", "(", "3", ")">>, <<"4">>, <<"v">>}],
      [column |-> "Volume-Issue", lower |-> "volume-issue", key |-> "volume",
        cells |-> {<<"1", "2", "(", "3", ")">>, <<"4">>, <<"v">>}],
      [column |-> "Issue", lower |-> "issue", key |-> "issue",
        cells |-> {<<"2">>, <<" ", "7", " ">>, <<"x">>}],
      [column |-> "Pages", lower |-> "pages", key |-> "page",
        cells |-> {<<"1", "-", "9">>, <<" ", "1", "2", " ">>, <<"x">>}],
      [column |-> "Page Range", lower |-> "page range", key |-> "page",
        cells |-> {<<"1", "-", "9">>, <<" ", "1", "2", " ">>, <<"x">>}],
      [column |-> "Page", lower |-> "page", key |-> "page",
        cells |-> {<<"1", "-", "9">>, <<" ", "1", "2", " ">>, <<"x">>}],
      [column |-> "DOI", lower |-> "doi", key |-> "doi",
        cells |-> {<<"1", "0", ".", "1", "/", "x">>, <<"h", "t", "t", "p", "s", ":", "/", "/", "d", "o", "i", ".", "o", "r", "g", "/", "1", "0", ".", "2", "/", "y">>, <<"h", "t", "t", "p", ":", "/", "/", "u">>}],
      [column |-> "DOI/URL", lower |-> "doi/url", key |-> "doi",
        cells |-> {<<"1", "0", ".", "1", "/", "x">>, <<"h", "t", "t", "p", "s", ":", "/", "/", "d", "o", "i", ".", "o", "r", "g", "/", "1", "0", ".", "2", "/", "y">>, <<"h", "t", "t", "p", ":", "/", "/", "u">>}],
      [column |-> "URL", lower |-> "url", key |-> "url",
        cells |-> {<<"h", "t", "t", "p", ":", "/", "/", "u">>, <<" ", "h", "t", "t", "p", "s", ":", "/", "/", "v", " ">>, <<"x">>}],
      [column |-> "Publisher", lower |-> "publisher", key |-> "publisher",
        cells |-> {<<"P">>, <<" ", "Q", " ", "R", " ">>, <<"x">>}],
      [column |-> "Source Type", lower |-> "source type", key |-> "type",
        cells |-> {<<"B", "o", "o", "k">>, <<" ", "t", "h", "e", "s", "i", "s", " ">>, <<"z", "z", "z">>}] }

\* Tables of two rows with the same cell, the first under a capitalised
\* column name and the second under a lower-case name for it.
AliasTables ==
    UNION { { << (a.column :> cell), (name :> cell) >> :
                cell \in a.cells, name \in {a.lower, a.key} } : a \in AliasColumns }

\* The cells of a 'Volume' column: a lead, a number, a separator, a number
\* and a tail, each of which may be missing.
VolumeCells ==
    { lead \o first \o mid \o second \o tail :
        lead   \in { <<>>,
                    <<" ">>,
                    <<"x">>,
                    <<"v", "o", "l">>,
                    <<"v", "o", "l", ".">>,
                    <<"V", "o", "l", ".", " ">>,
                    <<"V", "O", "L">>,
                    <<"v">>,
                    <<"v", ".", " ">>,
                    <<"V">>,
                    <<"9", "-">>,
                    <<"n", "o">> },
        first  \in { <<>>,
                    <<"1">>,
                    <<"1", "2">> },
        mid    \in { <<>>,
                    <<" ">>,
                    <<"(">>,
                    <<" ", "(", " ">>,
                    <<"-">>,
                    <<" ", "-", " ">>,
                    <<EnDash>>,
                    <<" ", EmDash, "\t">>,
                    <<"n", "o">>,
                    <<" ", "n", "o", ".", " ">>,
                    <<"N", "O", ".">>,
                    <<"n">>,
                    <<" ", "n", ".", " ">>,
                    <<"N">>,
                    <<"/">>,
                    <<"x">> },
        second \in { <<>>,
                    <<"3">>,
                    <<"4", "5">> },
        tail   \in { <<>>,
                    <<" ">>,
                    <<")">>,
                    <<" ", ")">>,
                    <<"x">>,
                    <<"(", "7", ")">>,
                    <<"-", "7">> } }

\* The cells of a 'DOI' column: an optional scheme, an optional host and an
\* optional identifier, with or without a blank in front.
DoiCells ==
    { before \o scheme \o host \o tail :
        before \in {<<>>, <<" ">>},
        scheme \in { <<>>, <<"h", "t", "t", "p", ":", "/", "/">>,
                     <<"h", "t", "t", "p", "s", ":", "/", "/">>,
                     <<"H", "T", "T", "P", "S", ":", "/", "/">> },
        host   \in { <<>>, <<"d", "o", "i", ".", "o", "r", "g", "/">>,
                     <<"d", "x", ".", "d", "o", "i", ".", "o", "r", "g", "/">>,
                     <<"w", "w", "w", ".", "d", "o", "i", ".", "o", "r", "g", "/">>,
                     <<"e", ".", "c", "o", "m", "/">> },
        tail   \in { <<>>, <<"x">>, <<"1", "0", ".", "1", "2", "3", "4", "/", "x">> } }

\* Volume cells of each kind the extractor tells apart (the four forms, digits
\* only, other text, blank, empty) and the cells of an 'Issue' column.
IssueTables ==
    { << ("Title" :> <<"T">>) @@ (volumeColumn :> volumeCell) @@ (issueColumn :> issueCell) >> :
        volumeColumn \in {"Volume", "Volume-Issue", "volume"},
        volumeCell \in { <<>>, <<" ">>, <<"x">>, <<"1", "2">>, <<"1", "2", "(", "3", ")">>,
                         <<"9", "-", "1", "2">>,
                         <<"v", "o", "l", ".", " ", "1", " ", "n", "o", ".", " ", "2">>,
                         <<"v", ".", "1", "n", ".", "2">> },
        issueColumn \in {"Issue", "issue"},
        issueCell \in { <<>>, <<" ">>, <<"4">>, <<" ", "5", " ">>,
                        <<"n", "o", ".", " ", "6">> } }

\* The cells of a 'URL' column: addresses with and without blanks around
\* them, texts that are no http address, and the blank cell.
LinkCells ==
    { <<"h", "t", "t", "p", ":", "/", "/", "u">>,
      <<" ", "h", "t", "t", "p", "s", ":", "/", "/", "u", " ">>,
      <<"f", "t", "p", ":", "/", "/", "u">>,
      <<"w", "w", "w", ".", "u">>,
      <<" ">> }

\* The tables of one row that has a title, a DOI cell and a URL cell.
LinkTables ==
    { << ("Title" :> <<"T">>) @@ (doiColumn :> doiCell) @@ (urlColumn :> urlCell) >> :
        doiColumn \in {"DOI", "DOI/URL", "doi"}, doiCell \in DoiCells,
        urlColumn \in {"URL", "url"}, urlCell \in LinkCells }

\* The pieces spreadsheet URLs are written with: the marker of the ID
\* segment, its two characters, two runs of ID characters and a character
\* that is none.
UrlTokens ==
    { <<"/", "d", "/">>, <<"/">>, <<"d">>, <<"a", "-">>, <<"_", "Z", "9">>, <<".">> }

\* What the URL field can hold when the Generate button is enabled.
UrlTexts ==
    UNION { TextsOfLen(UrlTokens, n) : n \in 1..MaxUrlTokens }

RECURSIVE SeqsOfLen(_, _)
SeqsOfLen(S, n) ==
    IF n = 0 THEN {<<>>}
    ELSE {Append(s, x) : s \in SeqsOfLen(S, n - 1), x \in S}

SeqsUpTo(S, n) == UNION {SeqsOfLen(S, k) : k \in 0..n}

\* What Papa.parse can deliver: up to MaxRows rows.
ParsedData == SeqsUpTo(SampleRows, MaxRows)

\* The number n of the id "item_n".
ItemNumber(id) == CHOOSE n \in 1..MaxRows : id = "item_" \o ToString(n)

\* The bibliography entry of an item as markup; its text names the item.
EntryMarkup(id) ==
    <<"<", "i", ">", "R", "e", "f", " ", " ">> \o NumStr(ItemNumber(id))
    \o <<"<", "/", "i", ">", " ">>

\* Markup without text.
BlankMarkup == <<"<", "b", "r", ">", " ">>

\* The fragments the engine can return for one requested id.
FragmentsFor(id) ==
    { [html |-> EntryMarkup(id), throws |-> FALSE],
      [html |-> BlankMarkup, throws |-> FALSE],
      [html |-> EntryMarkup(id), throws |-> TRUE] }

\* bib[1]: one fragment per requested id, in request order; a shorter list
\* is a bibliography that stops early.
RECURSIVE FragmentLists(_)
FragmentLists(ids) ==
    IF ids = <<>> THEN {<<>>}
    ELSE {<<>>} \cup {<<f>> \o rest : f \in FragmentsFor(Head(ids)),
                                     rest \in FragmentLists(Tail(ids))}

\* What the engine can do in one call of generateCitations for these ids.
EngineBehaviours(ids) ==
    { [construct |-> "throws", update |-> "ok", bib |-> "ok", fragments |-> <<>>],
      [construct |-> "ok", update |-> "throws", bib |-> "ok", fragments |-> <<>>],
      [construct |-> "ok", update |-> "ok", bib |-> "throws", fragments |-> <<>>] }
    \cup
    { [construct |-> "ok", update |-> "ok", bib |-> "ok", fragments |-> f] :
          f \in FragmentLists(ids) }

StyleDocument == <<"<", "s", "t", "y", "l", "e", ">">>

NotAStyle == <<"<", "h", "t", "m", "l", ">">>

\* The text of a style file or of the response to the style request.
StyleTexts == {StyleDocument, NotAStyle}

LocaleDocument == <<"<", "l", "o", "c", "a", "l", "e", ">">>

ShareUrl == <<"s", "/", "d", "/", "a", "-", "1", "/", "e">>

NotAShareUrl == <<"s", "/", "d", "/">>

\* What the user can type into the URL field.
UrlInputs == {<<>>, ShareUrl, NotAShareUrl}

\* No file chosen (null, or undefined for the style file).
NoFile == "null"

(***************************************************************************)
(* The state                                                               *)
(***************************************************************************)
VARIABLES
    \* the state of the component (useState)
    gsheetUrl, csvFile, cslFile, isLoading, status, result, librariesLoaded,
    \* the globals the library scripts define
    windowCSL, windowPapa,
    \* the interval and the timeout of the library check are pending
    polling,
    \* where the run of handleGeneration stands and, while it is in progress,
    \* the cslFile of the render it was started from and the URLs it has requested
    pc, runCslFile, requests,
    \* the locals of the run
    jsonData, cslStyle, enLocale, cslItems, validItems, validationErrors,
    \* the calls of generateCitations so far in the run and the ids it handed
    \* to the engine
    rendererCalls, itemIDs,
    \* bib[1] of the run: the fragments engine.makeBibliography returned
    bib,
    \* a call of copyToClipboard is waiting for navigator.clipboard.writeText
    copying

uiVars == <<gsheetUrl, csvFile, cslFile>>

libVars == <<librariesLoaded, windowCSL, windowPapa, polling>>

localVars == <<jsonData, cslStyle, enLocale, cslItems, validItems, validationErrors,
               rendererCalls, itemIDs, bib>>

vars == <<gsheetUrl, csvFile, cslFile, isLoading, status, result,
          librariesLoaded, windowCSL, windowPapa, polling, pc, runCslFile, requests,
          jsonData, cslStyle, enLocale, cslItems, validItems, validationErrors,
          rendererCalls, itemIDs, bib, copying>>

\* useState<GenerationResult | null>(null)
NullResult == [null |-> TRUE]

Status(message, type) == [message |-> message, type |-> type]

Init ==
    /\ gsheetUrl = <<>>
    /\ csvFile = NoFile
    /\ cslFile = NoFile
    /\ isLoading = FALSE
    /\ status = Status("", "info")
    /\ result = NullResult
    /\ librariesLoaded = FALSE
    /\ windowCSL = FALSE
    /\ windowPapa = FALSE
    /\ polling = TRUE
    /\ pc = "idle"
    /\ runCslFile = NoFile
    /\ requests = <<>>
    /\ jsonData = <<>>
    /\ cslStyle = <<>>
    /\ enLocale = <<>>
    /\ cslItems = <<>>
    /\ validItems = <<>>
    /\ validationErrors = <<>>
    /\ rendererCalls = 0
    /\ itemIDs = <<>>
    /\ bib = <<>>
    /\ copying = FALSE

(***************************************************************************)
(* The inputs of the form                                                  *)
(***************************************************************************)
\* lines 671-674: the URL field
EditUrl(url) ==
    /\ gsheetUrl # url
    /\ gsheetUrl' = url
    /\ csvFile' = NoFile
    /\ UNCHANGED <<cslFile, isLoading, status, result, libVars,
                   pc, runCslFile, requests, localVars, copying>>

\* handleFileUpload without setGsheetUrl('').
handleFileUploadKeepUrl(file) ==
    /\ file # NoFile
    /\ csvFile' = file
    /\ UNCHANGED <<gsheetUrl, cslFile, isLoading, status, result, libVars,
                   pc, runCslFile, requests, localVars, copying>>

\* lines 577-584: the file input, with a file chosen
handleFileUpload(file) ==
    /\ file # NoFile
    /\ csvFile' = file
    /\ gsheetUrl' = <<>>
    /\ UNCHANGED <<cslFile, isLoading, status, result, libVars,
                   pc, runCslFile, requests, localVars, copying>>

\* lines 586-589
handleCslFileUpload(file) ==
    /\ cslFile # file
    /\ cslFile' = file
    /\ UNCHANGED <<gsheetUrl, csvFile, isLoading, status, result, libVars,
                   pc, runCslFile, requests, localVars, copying>>

(***************************************************************************)
(* The libraries                                                           *)
(***************************************************************************)
\* A library script finishes loading and defines its global.
ScriptLoads ==
    /\ \/ ~windowCSL /\ windowCSL' = TRUE /\ UNCHANGED windowPapa
       \/ ~windowPapa /\ windowPapa' = TRUE /\ UNCHANGED windowCSL
    /\ UNCHANGED <<uiVars, isLoading, status, result, librariesLoaded, polling,
                   pc, runCslFile, requests, localVars, copying>>

\* lines 54-65 and 74-79: a check of the interval that finds both globals;
\* it clears the interval and the timeout
checkLibraries ==
    /\ polling
    /\ ~librariesLoaded
    /\ windowCSL /\ windowPapa
    /\ librariesLoaded' = TRUE
    /\ polling' = FALSE
    /\ status' = Status("External libraries loaded successfully.", "success")
    /\ UNCHANGED <<uiVars, isLoading, result, windowCSL, windowPapa,
                   pc, runCslFile, requests, localVars, copying>>

\* librariesTimeout without the final check of lines 86-93.
librariesTimeoutNoRetry ==
    /\ polling
    /\ polling' = FALSE
    /\ status' = Status("Failed to load external libraries. Please check your "
                        \o "network connection and refresh the page.", "error")
    /\ UNCHANGED librariesLoaded
    /\ UNCHANGED <<uiVars, isLoading, result, windowCSL, windowPapa,
                   pc, runCslFile, requests, localVars, copying>>

\* lines 81-99: the timeout fires; it clears the interval and makes a last check
librariesTimeout ==
    /\ polling
    /\ polling' = FALSE
    /\ IF windowCSL /\ windowPapa
       THEN /\ librariesLoaded' = TRUE
            /\ status' = Status("External libraries loaded successfully (after retry).",
                                "success")
       ELSE /\ status' = Status("Failed to load external libraries. Please check your "
                                \o "network connection and refresh the page.", "error")
            /\ UNCHANGED librariesLoaded
    /\ UNCHANGED <<uiVars, isLoading, result, windowCSL, windowPapa,
                   pc, runCslFile, requests, localVars, copying>>

(***************************************************************************)
(* handleGeneration, one action per stretch between two awaits             *)
(***************************************************************************)
\* Fatal without the setResult of lines 530-536.
FatalNoResult(errorMessage) ==
    /\ status' = Status("Error: " \o errorMessage, "error")
    /\ UNCHANGED result
    /\ isLoading' = FALSE
    /\ pc' = "idle"
    /\ runCslFile' = NoFile
    /\ requests' = <<>>

\* lines 526-539: the catch block and the finally block
Fatal(errorMessage) ==
    /\ status' = Status("Error: " \o errorMessage, "error")
    /\ result' = fatalResult(errorMessage)
    /\ isLoading' = FALSE
    /\ pc' = "idle"
    /\ runCslFile' = NoFile
    /\ requests' = <<>>

\* line 705: the Generate button is enabled
ButtonEnabled ==
    ~(isLoading \/ ~librariesLoaded \/ (~Truthy(gsheetUrl) /\ csvFile = NoFile))

\* rejectedGeneration with the resets of lines 451-452 made before the checks.
rejectedGenerationReset ==
    /\ (~Truthy(gsheetUrl) /\ csvFile = NoFile) \/ ~librariesLoaded
    /\ status' = IF ~Truthy(gsheetUrl) /\ csvFile = NoFile
                 THEN Status("Please provide a Google Sheet URL or upload a CSV file.", "error")
                 ELSE Status("Citation libraries are still loading. "
                             \o "Please wait a moment and try again.", "error")
    /\ result' = NullResult
    /\ UNCHANGED <<uiVars, libVars, copying, isLoading,
                   pc, runCslFile, requests, localVars>>

\* lines 440-449: handleGeneration called in a state in which the Generate
\* button is disabled for want of an input or of the libraries; it returns
\* at one of its two checks.
rejectedGeneration ==
    /\ (~Truthy(gsheetUrl) /\ csvFile = NoFile) \/ ~librariesLoaded
    /\ status' = IF ~Truthy(gsheetUrl) /\ csvFile = NoFile
                 THEN Status("Please provide a Google Sheet URL or upload a CSV file.", "error")
                 ELSE Status("Citation libraries are still loading. "
                             \o "Please wait a moment and try again.", "error")
    /\ UNCHANGED <<uiVars, libVars, copying, isLoading, result,
                   pc, runCslFile, requests, localVars>>

\* lines 440-470: the click, up to the first await
handleGeneration ==
    /\ ButtonEnabled
    /\ ~(~Truthy(gsheetUrl) /\ csvFile = NoFile)
    /\ librariesLoaded
    /\ jsonData' = <<>>
    /\ cslStyle' = <<>>
    /\ enLocale' = <<>>
    /\ cslItems' = <<>>
    /\ validItems' = <<>>
    /\ validationErrors' = <<>>
    /\ rendererCalls' = 0
    /\ itemIDs' = <<>>
    /\ bib' = <<>>
    /\ IF Truthy(gsheetUrl)
       THEN IF buildCsvUrl(gsheetUrl).threw
            THEN Fatal(buildCsvUrl(gsheetUrl).message)
            ELSE /\ isLoading' = TRUE
                 /\ runCslFile' = cslFile
                 /\ result' = NullResult
                 /\ status' = Status("Fetching data from Google Sheet...", "info")
                 /\ requests' = <<buildCsvUrl(gsheetUrl).url>>
                 /\ pc' = "fetchSheet"
       ELSE /\ isLoading' = TRUE
            /\ runCslFile' = cslFile
            /\ result' = NullResult
            /\ status' = Status("Reading CSV file...", "info")
            /\ requests' = <<>>
            /\ pc' = "readFile"
    /\ UNCHANGED <<uiVars, libVars, copying>>

\* lines 460-462 and 472: the response to the request for the sheet
sheetFetched ==
    /\ pc = "fetchSheet"
    /\ \/ /\ pc' = "parse"
          /\ status' = Status("Parsing CSV data...", "info")
          /\ UNCHANGED <<isLoading, result, runCslFile, requests>>
       \/ Fatal("Failed to fetch from Google Sheet: Not Found")
       \/ Fatal("Failed to fetch")
    /\ UNCHANGED <<uiVars, libVars, copying, localVars>>

\* lines 465-467 and 472: the text of the chosen file
fileRead ==
    /\ pc = "readFile"
    /\ \/ /\ pc' = "parse"
          /\ status' = Status("Parsing CSV data...", "info")
          /\ UNCHANGED <<isLoading, result, runCslFile, requests>>
       \/ Fatal("The requested file could not be read")
    /\ UNCHANGED <<uiVars, libVars, copying, localVars>>

\* getCslStyle and fetchResource up to their first await: the status raised
\* and the requests issued (lines 412-420, 430-431, 475-478)
styleStatus(file) ==
    IF file # NoFile
    THEN Status("Reading custom CSL style file...", "info")
    ELSE Status("Fetching default APA 7 citation style...", "info")

resourceRequests(file) ==
    (IF file # NoFile THEN <<>> ELSE <<StyleUrl>>) \o <<LocaleUrl>>

\* lines 382-410 and 473-478: Papa.parse, then the two resources are requested
parseCsv ==
    /\ pc = "parse"
    /\ \/ /\ windowPapa
          /\ \E data \in ParsedData : jsonData' = data
          /\ status' = styleStatus(runCslFile)
          /\ requests' = requests \o resourceRequests(runCslFile)
          /\ pc' = "resources"
          /\ UNCHANGED <<isLoading, result, runCslFile>>
       \/ /\ IF windowPapa
             THEN Fatal("CSV Parsing Error: Too few fields")
             ELSE Fatal("CSV parsing library not loaded. Please refresh the page and try again.")
          /\ UNCHANGED jsonData
    /\ UNCHANGED <<uiVars, libVars, copying, cslStyle, enLocale, cslItems, validItems,
                   validationErrors, rendererCalls, itemIDs, bib>>

StyleFetchError == "Could not download APA CSL style: Not Found"

LocaleFetchError == "Could not download English locale: Not Found"

\* lines 475-480: Promise.all settles; it rejects with the first rejection.
\* A response that is not ok is reported under the name of the resource
\* (lines 421-423, 432-434); a fetch or a file read that rejects is reported
\* by its own message (lines 415, 420, 431).
resourcesFetched ==
    /\ pc = "resources"
    /\ \/ /\ \E text \in StyleTexts : cslStyle' = text
          /\ enLocale' = LocaleDocument
          /\ status' = Status("Converting data to CSL-JSON format...", "info")
          /\ pc' = "convert"
          /\ runCslFile' = NoFile
          /\ UNCHANGED <<isLoading, result, requests>>
       \/ /\ runCslFile = NoFile
          /\ Fatal(StyleFetchError)
          /\ UNCHANGED <<cslStyle, enLocale>>
       \/ /\ Fatal(LocaleFetchError)
          /\ UNCHANGED <<cslStyle, enLocale>>
       \/ /\ Fatal("Failed to fetch")
          /\ UNCHANGED <<cslStyle, enLocale>>
       \/ /\ runCslFile # NoFile
          /\ Fatal("The requested file could not be read")
          /\ UNCHANGED <<cslStyle, enLocale>>
    /\ UNCHANGED <<uiVars, libVars, copying, jsonData, cslItems, validItems,
                   validationErrors, rendererCalls, itemIDs, bib>>

\* convertAndValidate without the check of line 486: the run goes on to the
\* renderer whatever the number of valid items.
convertAndValidateNoCheck ==
    /\ pc = "convert"
    /\ cslItems' = buildItems(jsonData)
    /\ validItems' = validateCslItems(buildItems(jsonData)).valid
    /\ validationErrors' = validateCslItems(buildItems(jsonData)).errors
    /\ status' = Status("Generating citations for "
                        \o ToString(Len(validateCslItems(buildItems(jsonData)).valid))
                        \o " valid items...", "info")
    /\ pc' = "render"
    /\ UNCHANGED <<uiVars, libVars, copying, isLoading, result, runCslFile, requests, jsonData,
                   cslStyle, enLocale, rendererCalls, itemIDs, bib>>

\* lines 480-490: the items are built and validated
convertAndValidate ==
    /\ pc = "convert"
    /\ LET items     == buildItems(jsonData)
           validated == validateCslItems(items)
       IN  /\ cslItems' = items
           /\ validItems' = validated.valid
           /\ validationErrors' = validated.errors
           /\ IF Len(validated.valid) = 0
              THEN Fatal(NoValidItemsMessage)
              ELSE /\ status' = Status("Generating citations for "
                                       \o ToString(Len(validated.valid))
                                       \o " valid items...", "info")
                   /\ pc' = "render"
                   /\ UNCHANGED <<isLoading, result, runCslFile, requests>>
    /\ UNCHANGED <<uiVars, libVars, copying, jsonData, cslStyle, enLocale,
                   rendererCalls, itemIDs, bib>>

\* assembledResult with the errors of the renderer only.
assembledResultRenderErrors(rows, items, valid, errors, rendered) ==
    [success   |-> Len(rendered.citations) > 0,
     citations |-> rendered.citations,
     errors    |-> rendered.errors,
     warnings  |-> buildWarnings(items, valid),
     csvData   |-> finalCsvData(rows, items, valid, rendered.citations)]

\* lines 512-518
assembledResult(rows, items, valid, errors, rendered) ==
    [success   |-> Len(rendered.citations) > 0,
     citations |-> rendered.citations,
     errors    |-> errors \o rendered.errors,
     warnings  |-> buildWarnings(items, valid),
     csvData   |-> finalCsvData(rows, items, valid, rendered.citations)]

\* lines 520-524
finalStatus(rendered) ==
    IF Len(rendered.citations) > 0
    THEN Status("Successfully generated " \o ToString(Len(rendered.citations))
                \o " citations.", "success")
    ELSE Status("Failed to generate any citations. Check debug information for details.",
                "error")

\* lines 491-524 and 537-539: the citations are rendered and the result is assembled
renderAndAssemble ==
    /\ pc = "render"
    /\ \E engine \in EngineBehaviours([i \in 1..Len(validItems) |-> validItems[i].id]) :
          LET rendered == generateCitations(validItems, cslStyle, enLocale, windowCSL, engine)
          IN  /\ rendererCalls' = rendererCalls + 1
              /\ itemIDs' = rendered.itemIDs
              /\ bib' = rendered.bib
              /\ result' = assembledResult(jsonData, cslItems, validItems,
                                           validationErrors, rendered)
              /\ status' = finalStatus(rendered)
    /\ isLoading' = FALSE
    /\ pc' = "idle"
    /\ runCslFile' = NoFile
    /\ requests' = <<>>
    /\ UNCHANGED <<uiVars, libVars, copying, jsonData, cslStyle, enLocale,
                   cslItems, validItems, validationErrors>>

(***************************************************************************)
(* The Copy button of a citation                                           *)
(***************************************************************************)
\* lines 890 and 902: the citations of the latest result are on the page
CitationsShown ==
    /\ result # NullResult
    /\ Len(result.citations) > 0

\* lines 542-544: the click, up to the await of navigator.clipboard.writeText
copyToClipboard ==
    /\ CitationsShown
    /\ ~copying
    /\ copying' = TRUE
    /\ UNCHANGED <<uiVars, libVars, isLoading, status, result,
                   pc, runCslFile, requests, localVars>>

\* lines 545-548: writeText settles and the outcome is written to the status
\* line and the log
clipboardSettled ==
    /\ copying
    /\ copying' = FALSE
    /\ \/ status' = Status("Citation copied to clipboard!", "success")
       \/ status' = Status("Failed to copy to clipboard", "error")
    /\ UNCHANGED <<uiVars, libVars, isLoading, result,
                   pc, runCslFile, requests, localVars>>

Next ==
    \/ \E url \in UrlInputs : EditUrl(url)
    \/ handleFileUpload("data.csv")
    \/ \E file \in {NoFile, "custom.csl"} : handleCslFileUpload(file)
    \/ ScriptLoads
    \/ checkLibraries
    \/ librariesTimeout
    \/ handleGeneration
    \/ sheetFetched
    \/ fileRead
    \/ parseCsv
    \/ resourcesFetched
    \/ convertAndValidate
    \/ renderAndAssemble

Spec == Init /\ [][Next]_vars

\* The interval and the timeout of the library check fire while they are
\* pending.
LibraryFairSpec == Spec /\ WF_vars(checkLibraries) /\ WF_vars(librariesTimeout)

\* The positions of a run.
Positions == {"idle", "fetchSheet", "readFile", "parse", "resources", "convert", "render"}

\* The run in progress moves on from the await it stands at.
RunProgress == pc # "idle" /\ pc' \in Positions

\* Every operation a run awaits settles: a run does not stand at an await
\* for ever.
RunFairSpec == Spec /\ WF_pc(RunProgress)

\* The form, the libraries and the run together with the Copy button, whose
\* steps change nothing but copying and the status line.
PageNext ==
    \/ Next
    \/ copyToClipboard
    \/ clipboardSettled

PageSpec == Init /\ [][PageNext]_vars

(***************************************************************************)
(* The click on its own: the libraries are loaded, a URL is in the field   *)
(* and no run has been made.                                               *)
(***************************************************************************)
InitUrls ==
    /\ gsheetUrl \in UrlTexts
    /\ csvFile = NoFile
    /\ cslFile = NoFile
    /\ isLoading = FALSE
    /\ status = Status("External libraries loaded successfully.", "success")
    /\ result = NullResult
    /\ librariesLoaded = TRUE
    /\ windowCSL = TRUE
    /\ windowPapa = TRUE
    /\ polling = FALSE
    /\ pc = "idle"
    /\ runCslFile = NoFile
    /\ requests = <<>>
    /\ jsonData = <<>>
    /\ cslStyle = <<>>
    /\ enLocale = <<>>
    /\ cslItems = <<>>
    /\ validItems = <<>>
    /\ validationErrors = <<>>
    /\ rendererCalls = 0
    /\ itemIDs = <<>>
    /\ bib = <<>>
    /\ copying = FALSE

UrlSpec == InitUrls /\ [][handleGeneration]_vars

(***************************************************************************)
(* The handler on its own: it is called in any state the form can be in    *)
(* between two runs, before the first run or after a run that a malformed  *)
(* URL ended.                                                              *)
(***************************************************************************)
InitGuards ==
    /\ gsheetUrl \in UrlTexts \cup {<<>>}
    /\ csvFile \in {NoFile, "data.csv"}
    /\ ~(Truthy(gsheetUrl) /\ csvFile # NoFile)
    /\ cslFile = NoFile
    /\ isLoading = FALSE
    /\ librariesLoaded \in BOOLEAN
    /\ windowCSL = librariesLoaded
    /\ windowPapa = librariesLoaded
    /\ polling = ~librariesLoaded
    /\ result \in IF librariesLoaded
                  THEN {NullResult, fatalResult(InvalidUrlMessage)}
                  ELSE {NullResult}
    /\ status = IF result # NullResult
                THEN Status("Error: " \o InvalidUrlMessage, "error")
                ELSE IF librariesLoaded
                THEN Status("External libraries loaded successfully.", "success")
                ELSE Status("", "info")
    /\ pc = "idle"
    /\ runCslFile = NoFile
    /\ requests = <<>>
    /\ jsonData = <<>>
    /\ cslStyle = <<>>
    /\ enLocale = <<>>
    /\ cslItems = <<>>
    /\ validItems = <<>>
    /\ validationErrors = <<>>
    /\ rendererCalls = 0
    /\ itemIDs = <<>>
    /\ bib = <<>>
    /\ copying = FALSE

GuardSpec == InitGuards /\ [][handleGeneration \/ rejectedGeneration]_vars

(***************************************************************************)
(* The validator on its own: a run that has read a CSV file and obtained   *)
(* the style and the locale is about to build and validate its items.      *)
(***************************************************************************)
InitConvert ==
    /\ gsheetUrl = <<>>
    /\ csvFile = "data.csv"
    /\ cslFile = NoFile
    /\ isLoading = TRUE
    /\ status = Status("Converting data to CSL-JSON format...", "info")
    /\ result = NullResult
    /\ librariesLoaded = TRUE
    /\ windowCSL = TRUE
    /\ windowPapa = TRUE
    /\ polling = FALSE
    /\ pc = "convert"
    /\ runCslFile = NoFile
    /\ requests = <<StyleUrl, LocaleUrl>>
    /\ jsonData \in SeqsUpTo(ValidatorRows, MaxRows)
    /\ cslStyle = StyleDocument
    /\ enLocale = LocaleDocument
    /\ cslItems = <<>>
    /\ validItems = <<>>
    /\ validationErrors = <<>>
    /\ rendererCalls = 0
    /\ itemIDs = <<>>
    /\ bib = <<>>
    /\ copying = FALSE

ValidatorSpec == InitConvert /\ [][convertAndValidate]_vars

(***************************************************************************)
(* The item builder on its own: the same point of a run, the parsed CSV    *)
(* being one of the given tables.                                          *)
(***************************************************************************)
InitConvertOf(tables) ==
    /\ gsheetUrl = <<>>
    /\ csvFile = "data.csv"
    /\ cslFile = NoFile
    /\ isLoading = TRUE
    /\ status = Status("Converting data to CSL-JSON format...", "info")
    /\ result = NullResult
    /\ librariesLoaded = TRUE
    /\ windowCSL = TRUE
    /\ windowPapa = TRUE
    /\ polling = FALSE
    /\ pc = "convert"
    /\ runCslFile = NoFile
    /\ requests = <<StyleUrl, LocaleUrl>>
    /\ jsonData \in tables
    /\ cslStyle = StyleDocument
    /\ enLocale = LocaleDocument
    /\ cslItems = <<>>
    /\ validItems = <<>>
    /\ validationErrors = <<>>
    /\ rendererCalls = 0
    /\ itemIDs = <<>>
    /\ bib = <<>>
    /\ copying = FALSE

\* The tables of one row that has a title and one more cell.
OneCellTables(columns, cells) ==
    { << ("Title" :> <<"T">>) @@ (col :> cell) >> : col \in columns, cell \in cells }

InitTypes == InitConvertOf(OneCellTables({"Source Type", "type"}, TypeCells))

TypeSpec == InitTypes /\ [][convertAndValidate]_vars

InitAuthors == InitConvertOf(OneCellTables({"Authors"}, AuthorCells))

AuthorSpec == InitAuthors /\ [][convertAndValidate]_vars

InitVolumes == InitConvertOf(OneCellTables({"Volume"}, VolumeCells))

VolumeSpec == InitVolumes /\ [][convertAndValidate]_vars

InitAliases == InitConvertOf(AliasTables)

AliasSpec == InitAliases /\ [][convertAndValidate]_vars

InitIssues == InitConvertOf(IssueTables)

IssueSpec == InitIssues /\ [][convertAndValidate]_vars

InitLinks == InitConvertOf(LinkTables)

LinkSpec == InitLinks /\ [][convertAndValidate]_vars

InitDois == InitConvertOf(OneCellTables({"DOI", "DOI/URL", "doi"}, DoiCells))

DoiSpec == InitDois /\ [][convertAndValidate]_vars

(***************************************************************************)
(* The unnamed variant (src/unnamed/part_000)                              *)
(*                                                                         *)
(* mapSourceType, parseAuthors, parseVolumeIssue, validateCslItems, the    *)
(* fragment loop and the catch block of the variant are, character for     *)
(* character, those of App.tsx; what differs is modelled here.             *)
(***************************************************************************)
\* part_000 134-137: the id and the type
itemBase_unnamed(row, index) ==
    [id   |-> "item_" \o ToString(index + 1),
     type |-> mapSourceType(FirstTruthy(row, <<"Source Type">>))]

\* part_000 140-144
withTitle_unnamed(item, row) ==
    LET title == FirstTruthy(row, <<"Title">>)
    IN  IF Truthy(title) THEN SetProp(item, "title", Trim(title)) ELSE item

\* part_000 146-151
withAuthor_unnamed(item, row) ==
    LET authors == parseAuthors(FirstTruthy(row, <<"Author(s)", "Authors", "Author">>))
    IN  IF Len(authors) > 0 THEN SetProp(item, "author", authors) ELSE item

\* part_000 153-158
withIssued_unnamed(item, row) ==
    LET year == FirstTruthy(row, <<"Year", "Publication Year", "Date">>)
    IN  IF Truthy(year) /\ ~ParseInt(year).nan
        THEN SetProp(item, "issued", ("date-parts" :> << <<ParseInt(year).value>> >>))
        ELSE item

\* part_000 160-163
withContainerTitle_unnamed(item, row) ==
    LET containerTitle == FirstTruthy(row, <<"Journal", "Publication", "Container Title",
                                             "Source">>)
    IN  IF Truthy(containerTitle)
        THEN SetProp(item, "container-title", Trim(containerTitle))
        ELSE item

\* part_000 165-168
withVolumeIssue_unnamed(item, row) ==
    LET volIss == parseVolumeIssue(FirstTruthy(row, <<"Volume", "Volume-Issue">>))
        issue  == FirstTruthy(row, <<"Issue">>)
        i1     == IF Truthy(volIss.volume) THEN SetProp(item, "volume", volIss.volume)
                  ELSE item
    IN  IF Truthy(volIss.issue) THEN SetProp(i1, "issue", volIss.issue)
        ELSE IF Truthy(issue) THEN SetProp(i1, "issue", Trim(issue))
        ELSE i1

\* part_000 170-171
withPage_unnamed(item, row) ==
    LET pages == FirstTruthy(row, <<"Pages", "Page Range", "Page">>)
    IN  IF Truthy(pages) THEN SetProp(item, "page", Trim(pages)) ELSE item

\* part_000 174-187
withDoi_unnamed(item, row) ==
    LET doiField == FirstTruthy(row, <<"DOI", "DOI/URL">>)
        doi      == Trim(doiField)
    IN  IF ~Truthy(doiField) THEN item
        ELSE IF StartsWith(doi, HttpPrefix)
        THEN IF Includes(doi, DoiHost)
             THEN SetProp(item, "DOI", StripResolver(doi))
             ELSE SetProp(item, "URL", doi)
        ELSE IF StartsWith(doi, DoiPrefix) THEN SetProp(item, "DOI", doi)
        ELSE item

\* part_000 189-194
withUrl_unnamed(item, row) ==
    LET url == FirstTruthy(row, <<"URL">>)
    IN  IF /\ Truthy(url)
           /\ ~TruthyProp(item, "DOI")
           /\ ~TruthyProp(item, "URL")
           /\ StartsWith(Trim(url), HttpPrefix)
        THEN SetProp(item, "URL", Trim(url))
        ELSE item

\* part_000 196-198
withPublisher_unnamed(item, row) ==
    LET publisher == FirstTruthy(row, <<"Publisher">>)
    IN  IF Truthy(publisher) THEN SetProp(item, "publisher", Trim(publisher)) ELSE item

\* part_000 133-202; index is the 0-based position of the row
createCslItem_unnamed(row, index) ==
    withPublisher_unnamed(
      withUrl_unnamed(
        withDoi_unnamed(
          withPage_unnamed(
            withVolumeIssue_unnamed(
              withContainerTitle_unnamed(
                withIssued_unnamed(
                  withAuthor_unnamed(
                    withTitle_unnamed(itemBase_unnamed(row, index), row), row), row), row),
              row), row), row), row), row)

\* part_000 408: jsonData.map((row, index) => createCslItem(row, index))
buildItems_unnamed(rows) ==
    [i \in 1..Len(rows) |-> createCslItem_unnamed(rows[i], i - 1)]

\* part_000 229-310.  The engine is the global CSL (line 256): where it is
\* not defined, reading it throws inside the try of the construction.
generateCitations_unnamed(items, style, locale, engineGlobal, engine) ==
    LET ids == [i \in 1..Len(items) |-> items[i].id]
    IN  IF ~Truthy(style) \/ ~Includes(style, StyleRoot)
        THEN renderFailure("Invalid CSL style: not a valid XML document", <<>>)
        ELSE IF ~engineGlobal
        THEN renderFailure("Failed to initialize citation engine: "
                           \o "ReferenceError: CSL is not defined", <<>>)
        ELSE IF engine.construct = "throws"
        THEN renderFailure("Failed to initialize citation engine: " \o Thrown, <<>>)
        ELSE IF engine.update = "throws"
        THEN renderFailure("Failed to update citation items: " \o Thrown, ids)
        ELSE IF engine.bib = "throws"
        THEN renderFailure("Failed to generate bibliography: " \o Thrown, ids)
        ELSE IF Len(engine.fragments) = 0
        THEN renderFailure("Failed to generate bibliography: "
                           \o "Error: Bibliography generation returned empty result", ids)
        ELSE LET done == processFragments(engine.fragments, 1)
             IN  [citations |-> done.citations, errors |-> done.errors,
                  itemIDs |-> ids, bib |-> engine.fragments]

\* part_000 421-425
buildWarnings_unnamed(items, valid) ==
    IF Len(valid) < Len(items)
    THEN <<ToString(Len(items) - Len(valid))
           \o " items were skipped due to validation errors">>
    ELSE <<>>

\* rowCitation_unnamed with the position of the row taken as a 1-based one.
rowCitation_unnamedOffByOne(index, citations) ==
    IF 0 < index /\ index <= Len(citations) /\ Truthy(citations[index])
    THEN citations[index]
    ELSE CouldNotGenerate

\* part_000 428: citations[index] || 'Error: Could not generate citation.'
rowCitation_unnamed(index, citations) ==
    IF index + 1 <= Len(citations) /\ Truthy(citations[index + 1])
    THEN citations[index + 1]
    ELSE CouldNotGenerate

\* part_000 427-430
finalCsvData_unnamed(rows, citations) ==
    [i \in 1..Len(rows) |->
        SetProp(rows[i], CitationColumn, rowCitation_unnamed(i - 1, citations))]

\* part_000 420 and 432-438
assembledResult_unnamed(rows, items, valid, errors, rendered) ==
    [success   |-> Len(rendered.citations) > 0,
     citations |-> rendered.citations,
     errors    |-> errors \o rendered.errors,
     warnings  |-> buildWarnings_unnamed(items, valid),
     csvData   |-> finalCsvData_unnamed(rows, rendered.citations)]

\* part_000 407-417: the items are built and validated
convertAndValidate_unnamed ==
    /\ pc = "convert"
    /\ LET items     == buildItems_unnamed(jsonData)
           validated == validateCslItems(items)
       IN  /\ cslItems' = items
           /\ validItems' = validated.valid
           /\ validationErrors' = validated.errors
           /\ IF Len(validated.valid) = 0
              THEN Fatal(NoValidItemsMessage)
              ELSE /\ status' = Status("Generating citations for "
                                       \o ToString(Len(validated.valid))
                                       \o " valid items...", "info")
                   /\ pc' = "render"
                   /\ UNCHANGED <<isLoading, result, runCslFile, requests>>
    /\ UNCHANGED <<uiVars, libVars, copying, jsonData, cslStyle, enLocale,
                   rendererCalls, itemIDs, bib>>

\* part_000 418-444 and 457-459: the citations are rendered and the result
\* is assembled
renderAndAssemble_unnamed ==
    /\ pc = "render"
    /\ \E engine \in EngineBehaviours([i \in 1..Len(validItems) |-> validItems[i].id]) :
          LET rendered == generateCitations_unnamed(validItems, cslStyle, enLocale,
                                                    windowCSL, engine)
          IN  /\ rendererCalls' = rendererCalls + 1
              /\ itemIDs' = rendered.itemIDs
              /\ bib' = rendered.bib
              /\ result' = assembledResult_unnamed(jsonData, cslItems, validItems,
                                                   validationErrors, rendered)
              /\ status' = finalStatus(rendered)
    /\ isLoading' = FALSE
    /\ pc' = "idle"
    /\ runCslFile' = NoFile
    /\ requests' = <<>>
    /\ UNCHANGED <<uiVars, libVars, copying, jsonData, cslStyle, enLocale,
                   cslItems, validItems, validationErrors>>

\* A row with a lower-case column name: App.tsx reads all its cells, the
\* variant all but the year.
RowLowerCase ==
    ("Title" :> <<"T", "9">>) @@ ("year" :> <<"2", "0", "2", "1">>)
    @@ ("Source Type" :> <<"b", "o", "o", "k">>)

\* A row of a web page, its cells under the later aliases of their columns.
RowWebpage ==
    ("Title" :> <<" ", "T", "5">>) @@ ("Authors" :> <<"A", "n", "n", " ", "L", "e", "e", ";", "A", "c", "m", "e">>)
    @@ ("Date" :> <<"2", "0", "1", "9">>) @@ ("Source Type" :> <<"W", "e", "b", "p", "a", "g", "e">>)
    @@ ("Publication" :> <<"B", "l", "o", "g">>) @@ ("Page" :> <<"4">>)
    @@ ("Issue" :> <<" ", "2">>) @@ ("DOI/URL" :> <<"x">>) @@ ("URL" :> <<" ", "h", "t", "t", "p", ":", "/", "/", "w">>)

\* The rows the variant is run on: between them the valid rows have a cell
\* in every kind of column createCslItem reads.
VariantRows == {RowBook, RowJournal, RowWebpage, RowEmpty, RowLowerCase}

\* A run of the variant that has parsed its CSV and obtained the style and
\* the locale.
InitUnnamed == InitConvertOf(SeqsUpTo(VariantRows, MaxRows))

UnnamedSpec ==
    InitUnnamed /\ [][convertAndValidate_unnamed \/ renderAndAssemble_unnamed]_vars

(***************************************************************************)
(* Properties of the result assembler                                      *)
(***************************************************************************)
\* The run has built and validated its items.
ConvertDone == pc = "render" \/ (pc = "idle" /\ enLocale # <<>>)

\* The run has called the renderer and stored the assembled result.
RunAssembled == pc = "idle" /\ rendererCalls = 1

\* The validator rejects the item of the row at 1-based position i.
Rejected(i) == Len(itemErrors(cslItems[i], i - 1)) > 0

\* The citation column of the output row at 1-based position i.
OutCitation(i) == result.csvData[i][CitationColumn]

\* The number of rows up to row i whose item is not rejected.
ValidRank(i) == Cardinality({j \in 1..i : ~Rejected(j)})

\* C1, as amended: after every run in which at least one item passes
\* validation, csvData has exactly as many rows as the parsed input, in input
\* order; the columns of an output row are those of its input row together
\* with 'APA 7 Citation', and every original column other than
\* 'APA 7 Citation' keeps its value, however many items were rejected and
\* however many citations the renderer returned.
C1_RowsPreserved ==
    RunAssembled =>
        /\ Len(result.csvData) = Len(jsonData)
        /\ \A i \in 1..Len(jsonData) :
              /\ DOMAIN result.csvData[i] = DOMAIN jsonData[i] \cup {CitationColumn}
              /\ \A c \in DOMAIN jsonData[i] \ {CitationColumn} :
                    result.csvData[i][c] = jsonData[i][c]

\* C1, as claimed: every output row keeps all its original columns, with
\* their values, and has one column more, 'APA 7 Citation'.
C1_Original ==
    RunAssembled =>
        /\ Len(result.csvData) = Len(jsonData)
        /\ \A i \in 1..Len(jsonData) :
              /\ \A c \in DOMAIN jsonData[i] :
                    /\ c \in DOMAIN result.csvData[i]
                    /\ result.csvData[i][c] = jsonData[i][c]
              /\ Cardinality(DOMAIN result.csvData[i])
                     = Cardinality(DOMAIN jsonData[i]) + 1

\* C1: a run of three rows, the first rejected, whose rendering failed.
C1_Witness ==
    /\ RunAssembled
    /\ Len(jsonData) = 3
    /\ Rejected(1)
    /\ Len(validItems) < Len(cslItems)
    /\ result.citations = <<>>
    /\ Len(result.csvData) = 3

\* C2: the citation column of an output row is the sentinel 'Skipped due to
\* validation errors.' exactly when the item of the row was rejected by the
\* validator.
C2_SentinelIffRejected ==
    RunAssembled =>
        \A i \in 1..Len(result.csvData) :
            (OutCitation(i) = SkippedSentinel) <=> Rejected(i)

\* C2: a rejected row and a valid row, each with its citation column.
C2_Witness ==
    /\ RunAssembled
    /\ \E i, j \in 1..Len(result.csvData) :
          /\ Rejected(i) /\ OutCitation(i) = SkippedSentinel
          /\ ~Rejected(j) /\ j > i /\ OutCitation(j) # SkippedSentinel

\* The text of the bibliography entry the engine renders for the row at
\* 1-based position j.
RenderedFor(j) == cleanText(EntryMarkup("item_" \o ToString(j)))

\* C3: the row of the k-th valid item carries the k-th rendered citation
\* when that citation exists and is not empty, and the placeholder 'Error:
\* Could not generate citation.' otherwise; no row carries the citation
\* rendered for the item of another row.
C3_OwnCitation ==
    RunAssembled =>
        \A i \in 1..Len(result.csvData) :
            /\ ~Rejected(i) =>
                  OutCitation(i) =
                      IF /\ ValidRank(i) <= Len(result.citations)
                         /\ result.citations[ValidRank(i)] # <<>>
                      THEN result.citations[ValidRank(i)]
                      ELSE CouldNotGenerate
            /\ \A j \in 1..Len(result.csvData) :
                  j # i => OutCitation(i) # RenderedFor(j)

\* C3: a valid row behind a rejected row carries the citation rendered for
\* its own item, and another valid row the placeholder.
C3_Witness ==
    /\ RunAssembled
    /\ \E i, j \in 1..Len(result.csvData) :
          /\ Rejected(1)
          /\ ~Rejected(i) /\ OutCitation(i) = RenderedFor(i)
          /\ ~Rejected(j) /\ OutCitation(j) = CouldNotGenerate

\* C4: when no item passes validation the renderer is not called and the
\* stored result has success = false, empty citations, csvData and warnings,
\* and the 'No valid citation items found...' message as its error list.
C4_NoValidItems ==
    (ConvertDone /\ Len(validItems) = 0) =>
        /\ pc = "idle"
        /\ rendererCalls = 0
        /\ itemIDs = <<>>
        /\ result # NullResult
        /\ result.success = FALSE
        /\ result.citations = <<>>
        /\ result.csvData = <<>>
        /\ result.warnings = <<>>
        /\ result.errors =
               <<"No valid citation items found. Please check your data format.">>

\* C4: a run over two rows, both rejected.
C4_Witness ==
    /\ ConvertDone
    /\ Len(jsonData) = 2
    /\ Len(cslItems) = 2
    /\ Len(validItems) = 0
    /\ ~isLoading

(***************************************************************************)
(* Properties of the validator and of the item ids                         *)
(***************************************************************************)
\* The item at 1-based position i of cslItems is among the valid items.
Accepted(i) == \E k \in 1..Len(validItems) : validItems[k] = cslItems[i]

MissingBoth(n) == "Item " \o ToString(n) \o ": Missing both title and author"

JournalRequired(n) == "Item " \o ToString(n) \o ": Journal articles require a journal name"

\* The messages that begin with 'Item n:'.
MessagesOf(n) == {MissingBoth(n), JournalRequired(n)}

Reported == {validationErrors[k] : k \in 1..Len(validationErrors)}

\* The four facts about an item the validator reads.
Deciders(item) ==
    <<"title" \in DOMAIN item /\ item["title"] # <<>>,
      "author" \in DOMAIN item,
      item.type = "article-journal",
      "container-title" \in DOMAIN item /\ item["container-title"] # <<>> >>

\* C5: an item is valid exactly when it has a title or an author and, if its
\* type is 'article-journal', a container title; a journal article without
\* container title is reported with the journal-name reason, an item with
\* neither title nor author with the missing-both reason; two items that
\* agree on title, author, type = 'article-journal' and container title are
\* both valid or both rejected.
C5_ValidityRule ==
    ConvertDone =>
        /\ \A i \in 1..Len(cslItems) :
              LET d == Deciders(cslItems[i])
              IN  /\ Accepted(i) <=> ((d[1] \/ d[2]) /\ (~d[3] \/ d[4]))
                  /\ (~d[1] /\ ~d[2]) <=> (MissingBoth(i) \in Reported)
                  /\ (d[3] /\ ~d[4]) <=> (JournalRequired(i) \in Reported)
        /\ \A i, j \in 1..Len(cslItems) :
              Deciders(cslItems[i]) = Deciders(cslItems[j])
                  => (Accepted(i) <=> Accepted(j))

\* C5: one run holds an item valid by its author alone, a titled journal
\* article rejected for its missing journal, and an item rejected for both
\* reasons.
C5_Witness ==
    /\ ConvertDone
    /\ \E i, j, k \in 1..Len(cslItems) :
          /\ Accepted(i) /\ ~Deciders(cslItems[i])[1] /\ "URL" \in DOMAIN cslItems[i]
          /\ ~Accepted(j) /\ Deciders(cslItems[j])[1] /\ Deciders(cslItems[j])[2]
          /\ ~Accepted(k) /\ MessagesOf(k) \subseteq Reported

\* C6: the valid items are the accepted items of the input in input order;
\* every message is 'Item n: ...' for a position n of the input whose item
\* has the id 'item_n'; the messages are in input order; and every item is
\* either among the valid items or has at least one message, never both.
C6_PartitionInOrder ==
    ConvertDone =>
        /\ validItems = SelectSeq(cslItems,
                                  LAMBDA it : \E k \in 1..Len(validItems) : validItems[k] = it)
        /\ \A m \in Reported :
              \E n \in 1..Len(cslItems) :
                  m \in MessagesOf(n) /\ cslItems[n].id = "item_" \o ToString(n)
        /\ \A a, b \in 1..Len(validationErrors) :
              a < b =>
                  (CHOOSE n \in 1..Len(cslItems) : validationErrors[a] \in MessagesOf(n))
                  <= (CHOOSE n \in 1..Len(cslItems) : validationErrors[b] \in MessagesOf(n))
        /\ \A i \in 1..Len(cslItems) :
              Accepted(i) <=> (MessagesOf(i) \cap Reported = {})

\* C6: a rejected item between two valid items, and a second rejected item
\* with two messages in front of them.
C6_Witness ==
    /\ ConvertDone
    /\ Len(cslItems) = 3 /\ Len(validItems) = 1 /\ Len(validationErrors) = 3
    /\ ~Accepted(1) /\ Accepted(2) /\ ~Accepted(3)
    /\ validationErrors[3] \in MessagesOf(3)

\* C7: there is one item per row; the item of the row at 1-based position i
\* has the id 'item_i', so the ids are pairwise distinct; the valid items are
\* items of the input, unchanged, each under its own id; and the ids handed
\* to the renderer are the ids of the valid items in order.
C7_StableIds ==
    ConvertDone =>
        /\ Len(cslItems) = Len(jsonData)
        /\ \A i \in 1..Len(cslItems) :
              /\ cslItems[i].id = "item_" \o ToString(i)
              /\ cslItems[i] = createCslItem(jsonData[i], i - 1)
        /\ \A i, j \in 1..Len(cslItems) : i # j => cslItems[i].id # cslItems[j].id
        /\ \A k \in 1..Len(validItems) :
              \E i \in 1..Len(cslItems) :
                  validItems[k] = cslItems[i] /\ validItems[k].id = "item_" \o ToString(i)
        /\ itemIDs \in {<<>>, [k \in 1..Len(validItems) |-> validItems[k].id]}

\* C7: a finished run whose renderer was handed the ids of the second and
\* third row, the first row being rejected.
C7_Witness ==
    /\ RunAssembled
    /\ Len(cslItems) = 3
    /\ Len(validItems) = 2
    /\ itemIDs = <<"item_2", "item_3">>
    /\ validItems[1] = cslItems[2]

(***************************************************************************)
(* Properties of the errors and warnings of a run                          *)
(***************************************************************************)
\* The messages of the errors thrown inside handleGeneration.
ThrownMessages ==
    { InvalidUrlMessage,
      "Failed to fetch from Google Sheet: Not Found",
      "Failed to fetch",
      "The requested file could not be read",
      "CSV Parsing Error: Too few fields",
      "CSV parsing library not loaded. Please refresh the page and try again.",
      StyleFetchError,
      LocaleFetchError,
      NoValidItemsMessage }

\* The messages of the failures generateCitations catches and returns.
RenderFailureMessages ==
    { "Citation generation failed: Error: " \o m :
        m \in { "CSL library not loaded. Please refresh the page and try again.",
                "Invalid CSL style: not a valid XML document",
                "Failed to initialize citation engine: " \o Thrown,
                "Failed to update citation items: " \o Thrown,
                "Failed to generate bibliography: " \o Thrown,
                "Failed to generate bibliography: "
                    \o "Error: Bibliography generation returned empty result" } }

ResultErrors == {result.errors[k] : k \in 1..Len(result.errors)}

\* C8, as amended: an error thrown in the run (malformed URL, failed fetch of
\* the sheet, the file, the style or the locale, parse failure, no valid
\* item) gives a result with success = false, no citations, no csvData and
\* the message as its only error; a failure of the renderer (malformed style,
\* engine construction, item update or bibliography failure) gives a result
\* with success = false, no citations and the message last in the error list
\* behind the validation errors, whose csvData still has one row per input
\* row, each with the sentinel or the placeholder as citation.
C8_FatalResults ==
    (result # NullResult /\ ~result.success) =>
        /\ result.citations = <<>>
        /\ Len(result.errors) >= 1
        /\ IF rendererCalls = 0
           THEN /\ result.csvData = <<>>
                /\ result.warnings = <<>>
                /\ Len(result.errors) = 1
                /\ result.errors[1] \in ThrownMessages
           ELSE /\ \E m \in RenderFailureMessages :
                      result.errors = validationErrors \o <<m>>
                /\ Len(result.csvData) = Len(jsonData)
                /\ \A i \in 1..Len(result.csvData) :
                      OutCitation(i) \in {SkippedSentinel, CouldNotGenerate}

\* C8, as claimed: a result that reports one of the fatal errors has no
\* citations and no csvData.
C8_Original ==
    (result # NullResult /\ ResultErrors \cap (ThrownMessages \cup RenderFailureMessages) # {}) =>
        /\ result.citations = <<>>
        /\ result.csvData = <<>>

\* C8: a run over two rows stopped by a malformed style.
C8_Witness ==
    /\ RunAssembled
    /\ ~result.success
    /\ "Citation generation failed: Error: Invalid CSL style: not a valid XML document"
           \in ResultErrors
    /\ Len(jsonData) = 2
    /\ Len(result.csvData) = 2

\* C8: a run stopped by an error thrown before the renderer is reached.
C8_WitnessThrown ==
    /\ result = fatalResult(StyleFetchError)
    /\ jsonData # <<>>
    /\ rendererCalls = 0

\* C9, as amended: in every run in which at least one item passes
\* validation, no rejected item's id is handed to the renderer, every reason
\* of every rejected item is in the error list of the final result, and the
\* row of a rejected item carries the sentinel, not a citation; in a run in
\* which every item is rejected the renderer is handed nothing and the error
\* list holds the 'No valid citation items found...' message only.
C9_RejectedReported ==
    (ConvertDone /\ pc = "idle") =>
        IF Len(validItems) > 0
        THEN \A i \in 1..Len(cslItems) :
                Rejected(i) =>
                    /\ \A k \in 1..Len(itemIDs) : itemIDs[k] # cslItems[i].id
                    /\ \A k \in 1..Len(itemErrors(cslItems[i], i - 1)) :
                          itemErrors(cslItems[i], i - 1)[k] \in ResultErrors
                    /\ OutCitation(i) = SkippedSentinel
                    /\ \A k \in 1..Len(result.citations) :
                          result.citations[k] # RenderedFor(i)
        ELSE /\ itemIDs = <<>>
             /\ result.errors = <<NoValidItemsMessage>>

\* C9, as claimed: in every finished run no rejected item's id is handed to
\* the renderer and every reason of every rejected item is in the error list
\* of the final result.
C9_Original ==
    (ConvertDone /\ pc = "idle") =>
        \A i \in 1..Len(cslItems) :
            Rejected(i) =>
                /\ \A k \in 1..Len(itemIDs) : itemIDs[k] # cslItems[i].id
                /\ \A k \in 1..Len(itemErrors(cslItems[i], i - 1)) :
                      itemErrors(cslItems[i], i - 1)[k] \in ResultErrors

\* C9: a run with citations, in which an item rejected for two reasons stands
\* between two valid items.
C9_Witness ==
    /\ RunAssembled
    /\ result.success
    /\ Len(cslItems) = 3
    /\ ~Rejected(1) /\ Rejected(2) /\ ~Rejected(3)
    /\ Len(itemErrors(cslItems[2], 1)) = 2
    /\ itemIDs = <<"item_1", "item_3">>
    /\ Len(result.citations) = 2

\* C10: when some but not all items are rejected the result has one warning
\* that reports (total items - valid items) as the number of skipped items,
\* and when no item is rejected it has no warning.
C10_WarningCount ==
    RunAssembled =>
        result.warnings =
            IF Len(validItems) < Len(cslItems)
            THEN <<ToString(Len(cslItems) - Len(validItems))
                   \o " items were skipped due to validation errors">>
            ELSE <<>>

(***************************************************************************)
(* Properties of the item builder                                          *)
(***************************************************************************)
\* The eleven citation-source kinds of the synonym table.
SourceKinds ==
    { "article-journal", "article-newspaper", "article-magazine", "book", "chapter",
      "paper-conference", "thesis", "report", "webpage", "post-weblog", "review" }

\* The raw source type of a row.
RawType(row) == FirstTruthy(row, <<"Source Type", "type">>)

\* The table entries whose key is the lower-cased, trimmed raw type.
TableEntries(raw) ==
    { mapping[k][2] : k \in {j \in 1..Len(mapping) : mapping[j][1] = Trim(ToLowerCase(raw))} }

\* C11: the type of every item is one of the eleven citation-source kinds:
\* the table entry of the lower-cased, trimmed source type when it is a key
\* of the table, 'webpage' for every other non-empty source type, and
\* 'article-journal' when the source type is empty or absent.
C11_ElevenKinds ==
    ConvertDone =>
        \A i \in 1..Len(cslItems) :
            /\ cslItems[i].type \in SourceKinds
            /\ IF RawType(jsonData[i]) = <<>>
               THEN cslItems[i].type = "article-journal"
               ELSE IF TableEntries(RawType(jsonData[i])) # {}
               THEN cslItems[i].type \in TableEntries(RawType(jsonData[i]))
               ELSE cslItems[i].type = "webpage"

\* The trimmed identifier of the DOI column of a row.
Identifier(row) == Trim(FirstTruthy(row, <<"DOI", "DOI/URL", "doi">>))

\* The positions at which 'doi.org/' occurs in an identifier.
ResolverAt(id) == {k \in 1..Len(id) : OccursAt(id, DoiHost, k)}

\* C12: an identifier that starts with 'http' and contains 'doi.org/' gives
\* as DOI the bare DOI, the identifier without its resolver prefix (all up to
\* and including 'doi.org/'), and no URL; one that starts with 'http'
\* otherwise gives the URL and no DOI; one that starts with '10.' gives
\* itself as DOI; any other gives neither.
C12_DoiOrUrl ==
    ConvertDone =>
        \A i \in 1..Len(cslItems) :
            LET id   == Identifier(jsonData[i])
                item == cslItems[i]
            IN  IF StartsWith(id, HttpPrefix) /\ ResolverAt(id) # {}
                THEN /\ "DOI" \in DOMAIN item
                     /\ \E k \in ResolverAt(id) :
                           item["DOI"] = SubSeq(id, k + Len(DoiHost), Len(id))
                     /\ ~StartsWith(item["DOI"], HttpPrefix)
                     /\ "URL" \notin DOMAIN item
                ELSE IF StartsWith(id, HttpPrefix)
                THEN "DOI" \notin DOMAIN item /\ "URL" \in DOMAIN item /\ item["URL"] = id
                ELSE IF StartsWith(id, DoiPrefix)
                THEN "URL" \notin DOMAIN item /\ "DOI" \in DOMAIN item /\ item["DOI"] = id
                ELSE "DOI" \notin DOMAIN item /\ "URL" \notin DOMAIN item

(***************************************************************************)
(* Properties of parseAuthors                                              *)
(***************************************************************************)
\* The author cell of a row, and the entries of its item.
AuthorCell(row) == FirstTruthy(row, <<"Author(s)", "Authors", "Author", "author">>)

AuthorsOf(item) == IF "author" \in DOMAIN item THEN item["author"] ELSE <<>>

\* The one delimiter a trimmed cell is split on: the first of ';', ' & ' and
\* ' and ' that it contains, and none if it contains none of them.
DelimiterOf(text) ==
    IF \E k \in 1..Len(text) : text[k] = ";" THEN <<";">>
    ELSE IF \E k \in 1..Len(text) : OccursAt(text, <<" ", "&", " ">>, k) THEN <<" ", "&", " ">>
    ELSE IF \E k \in 1..Len(text) : OccursAt(text, <<" ", "a", "n", "d", " ">>, k)
    THEN <<" ", "a", "n", "d", " ">>
    ELSE <<>>

\* The fragments of a cell: the trimmed, non-empty pieces between the
\* occurrences of its delimiter, from left to right.
FragmentsOf(cell) ==
    LET text   == Trim(cell)
        pieces == IF DelimiterOf(text) = <<>> THEN <<text>> ELSE Split(text, DelimiterOf(text))
    IN  SelectSeq([k \in 1..Len(pieces) |-> Trim(pieces[k])], LAMBDA f : f # <<>>)

\* The entries the fragments contribute, one fragment after the other.
RECURSIVE EntriesOf(_)
EntriesOf(fragments) ==
    IF fragments = <<>> THEN <<>>
    ELSE authorEntry(Head(fragments)) \o EntriesOf(Tail(fragments))

\* C13: the authors of an item are the entries of the fragments of its author
\* cell, in the order of the fragments, where the cell is trimmed and split
\* on one delimiter only, chosen by priority (';', else ' & ', else ' and ',
\* else not split), the fragments are trimmed and the empty ones dropped; no
\* fragment contributes more than one entry, so no fragment is split again;
\* an empty or blank cell gives no author.
C13_OneDelimiter ==
    ConvertDone =>
        \A i \in 1..Len(cslItems) :
            /\ AuthorsOf(cslItems[i]) = EntriesOf(FragmentsOf(AuthorCell(jsonData[i])))
            /\ Len(AuthorsOf(cslItems[i])) <= Len(FragmentsOf(AuthorCell(jsonData[i])))
            /\ Trim(AuthorCell(jsonData[i])) = <<>> => "author" \notin DOMAIN cslItems[i]

\* C13: a cell with ';' and ' & ' gives two entries, the second one made of
\* the fragment that holds the ' & '.
C13_Witness ==
    /\ ConvertDone
    /\ Len(jsonData) = 1
    /\ AuthorCell(jsonData[1]) = <<"a", ";", "a", " ", "&", " ", "a">>
    /\ Len(cslItems[1]["author"]) = 2
    /\ cslItems[1]["author"][1] = [literal |-> <<"a">>]
    /\ cslItems[1]["author"][2] = [literal |-> <<"a", " ", "&", " ", "a">>]

\* The position of the first comma of a fragment, 0 if it has none.
FirstComma(f) ==
    IF \E k \in 1..Len(f) : f[k] = ","
    THEN CHOOSE k \in 1..Len(f) : f[k] = "," /\ \A j \in 1..(k - 1) : f[j] # ","
    ELSE 0

\* What C14 says a fragment with a comma contributes: family is the trimmed
\* text before the first comma, given the trimmed text after it.
CommaEntry(f) ==
    LET family == Trim(SubSeq(f, 1, FirstComma(f) - 1))
        given  == Trim(SubSeq(f, FirstComma(f) + 1, Len(f)))
    IN  IF family # <<>> /\ given # <<>>
        THEN <<[family |-> family, given |-> given]>>
        ELSE <<>>

\* C14: a cell that is one fragment with a comma gives the entry {family,
\* given} of the trimmed text before the first comma and the trimmed text
\* after the first comma, all of it, when both are non-empty, and no entry
\* otherwise.
C14_FirstCommaOnly ==
    ConvertDone =>
        \A i \in 1..Len(cslItems) :
            LET fragments == FragmentsOf(AuthorCell(jsonData[i]))
            IN  (Len(fragments) = 1 /\ FirstComma(fragments[1]) # 0) =>
                    AuthorsOf(cslItems[i]) = CommaEntry(fragments[1])

\* The whitespace-separated tokens of a text, from left to right.
RECURSIVE TokensOf(_)
TokensOf(s) ==
    IF s = <<>> THEN <<>>
    ELSE IF Head(s) \in WhiteSpace THEN TokensOf(Tail(s))
    ELSE LET n == CHOOSE k \in 1..Len(s) :
                      /\ \A j \in 1..k : s[j] \notin WhiteSpace
                      /\ k = Len(s) \/ s[k + 1] \in WhiteSpace
         IN  <<SubSeq(s, 1, n)>> \o TokensOf(SubSeq(s, n + 1, Len(s)))

\* What C15 says a non-empty fragment without comma contributes.
NameEntry(f) ==
    LET tokens == TokensOf(f)
    IN  IF Len(tokens) >= 2 /\ Len(tokens[1]) > 1
        THEN [family |-> tokens[Len(tokens)],
              given  |-> Join(SubSeq(tokens, 1, Len(tokens) - 1), <<" ">>)]
        ELSE [literal |-> f]

\* C15: a cell that is one non-empty fragment without comma gives exactly
\* one entry: {family: last token, given: the tokens before it joined by a
\* blank} when it has two or more whitespace-separated tokens and the first
\* is longer than one character, and {literal: the fragment} otherwise.
C15_NameOrLiteral ==
    ConvertDone =>
        \A i \in 1..Len(cslItems) :
            LET fragments == FragmentsOf(AuthorCell(jsonData[i]))
            IN  (Len(fragments) = 1 /\ FirstComma(fragments[1]) = 0) =>
                    AuthorsOf(cslItems[i]) = <<NameEntry(fragments[1])>>

(***************************************************************************)
(* Properties of parseVolumeIssue                                          *)
(*                                                                         *)
(* A reading of a text from position s on is a record: ok says that the    *)
(* text has the form from s on, volume and issue are its two numbers.      *)
(***************************************************************************)
CharAt(text, i, chars) == i <= Len(text) /\ text[i] \in chars

AfterDigits(text, i) == i + DigitRun(text, i)

AfterBlanks(text, i) == i + SpaceRun(text, i)

AfterDot(text, i) == IF CharAt(text, i, {"."}) THEN i + 1 ELSE i

\* The letters of word, in either case, stand at position i.
WordAt(text, i, word) ==
    \A k \in 1..Len(word) : CharAt(text, i + k - 1, {word[k], ToLowerChar(word[k])})

Numbers(text, ok, n1, n2, m1, m2) ==
    [ok |-> ok, volume |-> SubSeq(text, n1, n2 - 1), issue |-> SubSeq(text, m1, m2 - 1)]

\* N(M): digits, '(', digits, ')', with blanks allowed between them.
ParenForm(text, s) ==
    LET a == AfterDigits(text, s)
        b == AfterBlanks(text, a)
        c == AfterBlanks(text, b + 1)
        d == AfterDigits(text, c)
        e == AfterBlanks(text, d)
    IN  Numbers(text, a > s /\ CharAt(text, b, {"("}) /\ d > c /\ CharAt(text, e, {")"}),
                s, a, c, d)

\* 'vol. N no. M' and 'v. N n. M': two words, each with an optional dot
\* behind it, each followed by digits, with blanks allowed in front of the
\* digits and of the second word.
WordForm(text, s, word1, word2) ==
    LET a == AfterBlanks(text, AfterDot(text, s + Len(word1)))
        b == AfterDigits(text, a)
        c == AfterBlanks(text, b)
        d == AfterBlanks(text, AfterDot(text, c + Len(word2)))
        e == AfterDigits(text, d)
    IN  Numbers(text, WordAt(text, s, word1) /\ b > a /\ WordAt(text, c, word2) /\ e > d,
                a, b, d, e)

\* N-M: digits, a hyphen, an en dash or an em dash, digits.
DashForm(text, s) ==
    LET a == AfterDigits(text, s)
        b == AfterBlanks(text, a)
        c == AfterBlanks(text, b + 1)
        d == AfterDigits(text, c)
    IN  Numbers(text, a > s /\ CharAt(text, b, {"-", EnDash, EmDash}) /\ d > c, s, a, c, d)

\* The four forms in the order of C16.
FormAt(text, s, k) ==
    CASE k = 1 -> ParenForm(text, s)
      [] k = 2 -> WordForm(text, s, <<"V", "O", "L">>, <<"N", "O">>)
      [] k = 3 -> WordForm(text, s, <<"V">>, <<"N">>)
      [] k = 4 -> DashForm(text, s)

\* The positions of a text from which it has the k-th form.
FormStarts(text, k) == {s \in 1..Len(text) : FormAt(text, s, k).ok}

\* The first form a text has somewhere, 0 if it has none.
FirstForm(text) ==
    IF \E k \in 1..4 : FormStarts(text, k) # {}
    THEN CHOOSE k \in 1..4 : FormStarts(text, k) # {} /\ \A j \in 1..(k - 1) : FormStarts(text, j) = {}
    ELSE 0

\* The leftmost position from which a text has the k-th form.
LeftmostStart(text, k) ==
    CHOOSE s \in FormStarts(text, k) : \A t \in FormStarts(text, k) : s <= t

\* What C16 says parseVolumeIssue returns for a cell; <<>> stands for null.
VolumeIssueOf(cell) ==
    LET text == Trim(cell)
    IN  IF FirstForm(text) # 0
        THEN LET m == FormAt(text, LeftmostStart(text, FirstForm(text)), FirstForm(text))
             IN  [volume |-> m.volume, issue |-> m.issue]
        ELSE IF text # <<>> /\ \A k \in 1..Len(text) : text[k] \in Digits
        THEN [volume |-> text, issue |-> <<>>]
        ELSE [volume |-> <<>>, issue |-> <<>>]

VolumeCell(row) == FirstTruthy(row, <<"Volume", "Volume-Issue", "volume">>)

\* A property of an item, <<>> if the item does not have it.
PropOf(item, key) == IF key \in DOMAIN item THEN item[key] ELSE <<>>

\* C16: for a row without issue column, the volume and the issue of the item
\* are the two numbers of the first of the four forms N(M), 'vol. N no. M',
\* 'v. N n. M', N-M that the trimmed volume cell has somewhere; if it has
\* none of them and is digits only, the volume is the text and there is no
\* issue; otherwise there is neither; and there is never an issue without a
\* volume.
C16_VolumeIssue ==
    ConvertDone =>
        \A i \in 1..Len(cslItems) :
            ({"Issue", "issue"} \cap DOMAIN jsonData[i] = {}) =>
                /\ PropOf(cslItems[i], "volume") = VolumeIssueOf(VolumeCell(jsonData[i])).volume
                /\ PropOf(cslItems[i], "issue") = VolumeIssueOf(VolumeCell(jsonData[i])).issue
                /\ "volume" \in DOMAIN cslItems[i] => cslItems[i]["volume"] # <<>>
                /\ "issue" \in DOMAIN cslItems[i] => "volume" \in DOMAIN cslItems[i]

\* C16: the cell '9-12(3)' has the form N-M further left than the form N(M),
\* and the item has the numbers of N(M).
C16_Witness ==
    /\ ConvertDone
    /\ Len(jsonData) = 1
    /\ VolumeCell(jsonData[1]) = <<"9", "-", "1", "2", "(", "3", ")">>
    /\ cslItems[1]["volume"] = <<"1", "2">>
    /\ cslItems[1]["issue"] = <<"3">>

\* C16: a cell of digits only gives a volume and no issue.
C16_WitnessDigits ==
    /\ ConvertDone
    /\ Len(jsonData) = 1
    /\ VolumeCell(jsonData[1]) = <<" ", "1", "2", " ">>
    /\ cslItems[1]["volume"] = <<"1", "2">>
    /\ "issue" \notin DOMAIN cslItems[1]

(***************************************************************************)
(* Properties of the column names                                          *)
(***************************************************************************)
\* Two items have the same properties apart from the id.
SameButId(item1, item2) ==
    /\ DOMAIN item1 = DOMAIN item2
    /\ \A p \in DOMAIN item1 \ {"id"} : item1[p] = item2[p]

\* The lower-case column names createCslItem reads.
LowerCaseKeys ==
    { "title", "author", "year", "container-title", "volume", "issue", "page", "doi",
      "url", "publisher", "type" }

\* The one column of a row.
ColumnOf(row) == CHOOSE c \in DOMAIN row : TRUE

\* The table is a row with a cell under a capitalised column name and a row
\* with the same cell under another name.
AliasPair ==
    /\ Len(jsonData) = 2
    /\ Cardinality(DOMAIN jsonData[1]) = 1
    /\ Cardinality(DOMAIN jsonData[2]) = 1
    /\ jsonData[1][ColumnOf(jsonData[1])] = jsonData[2][ColumnOf(jsonData[2])]

\* The second column name is the lower-case spelling of the first.
LowerSpelling ==
    \E a \in AliasColumns :
        ColumnOf(jsonData[1]) = a.column /\ ColumnOf(jsonData[2]) = a.lower

\* C17, as amended: a row that supplies a value under one of the lower-case
\* keys title, author, year, container-title, volume, issue, page, doi, url,
\* publisher and type yields the same item, apart from the id, as a row that
\* supplies the value under a capitalised column name of the same field; a
\* value under any other lower-case spelling of a column name ('journal',
\* 'authors', 'pages', 'publication year', 'source type', ...) is not read,
\* and the item is that of a row without cells.
C17_LowerCaseKeys ==
    (ConvertDone /\ AliasPair) =>
        IF ColumnOf(jsonData[2]) \in LowerCaseKeys
        THEN SameButId(cslItems[1], cslItems[2])
        ELSE cslItems[2] = [id |-> "item_2", type |-> "article-journal"]

\* C17, as claimed: a value under the lower-case spelling of a capitalised
\* column name yields the same item as under the capitalised name.
C17_Original ==
    (ConvertDone /\ AliasPair /\ LowerSpelling) =>
        SameButId(cslItems[1], cslItems[2])

\* C17: the same page range under 'Pages' and under 'page'.
C17_Witness ==
    /\ ConvertDone
    /\ AliasPair
    /\ ColumnOf(jsonData[1]) = "Pages"
    /\ ColumnOf(jsonData[2]) = "page"
    /\ cslItems[1]["page"] = <<"1", "-", "9">>
    /\ cslItems[2]["page"] = <<"1", "-", "9">>

\* C17: a journal under 'Journal' and under 'journal', read from the first
\* row only.
C17_WitnessIgnored ==
    /\ ConvertDone
    /\ AliasPair
    /\ ColumnOf(jsonData[1]) = "Journal"
    /\ ColumnOf(jsonData[2]) = "journal"
    /\ "container-title" \in DOMAIN cslItems[1]
    /\ "container-title" \notin DOMAIN cslItems[2]

(***************************************************************************)
(* Properties of the order of a run                                        *)
(***************************************************************************)
\* The run has gone past the two resources.
PastResources == pc \in {"convert", "render"} \/ cslItems # <<>> \/ rendererCalls > 0

\* C18: items are built, validated and rendered only with both the style
\* and the locale obtained; and whenever the wait for the two resources ends
\* in a failure, the run is over, nothing was built, the renderer was not
\* called and the one error of the result is the error of the fetch that
\* failed, which names the resource.
C18_ResourcesFirst ==
    /\ [](PastResources => (cslStyle \in StyleTexts /\ enLocale = LocaleDocument))
    /\ [][(pc = "resources" /\ pc' \notin {"resources", "convert"}) =>
              /\ pc' = "idle"
              /\ ~isLoading'
              /\ cslItems' = <<>>
              /\ rendererCalls' = 0
              /\ result' \in {fatalResult(StyleFetchError), fatalResult(LocaleFetchError)}]_vars

(***************************************************************************)
(* One run at a time                                                       *)
(***************************************************************************)
\* A run of handleGeneration is in progress.
RunActive == pc # "idle"

\* A step in which a run begins: the click leaves the run at its first await.
RunBegins == pc' \in {"fetchSheet", "readFile"} /\ pc' # pc

\* A step of the run in progress: it moves on to its next await or settles.
RunStep == RunActive /\ pc' # pc

\* A step of handleGeneration, the click included.
StepOfRun == RunStep \/ (pc = "idle" /\ ~isLoading /\ ButtonEnabled)

\* C19: a run is in progress exactly while isLoading is true and a run only
\* begins while no run is in progress; the latest result is written by the
\* steps of a run only and is null for as long as the run is in progress;
\* and while a run is in progress, the status line, every write of which
\* appends to the run log, is written by the steps of that run only.
C19_SingleRun ==
    /\ [](RunActive <=> isLoading)
    /\ [][RunBegins => (~RunActive /\ ~isLoading)]_vars
    /\ [][result' # result => StepOfRun]_vars
    /\ [](RunActive => result = NullResult)
    /\ [][(RunActive /\ status' # status) => RunStep]_vars

(***************************************************************************)
(* Properties of the text extraction                                       *)
(***************************************************************************)
\* The error recorded for the fragment at position k.
FailureMessage(k) == "Failed to process citation " \o ToString(k) \o ": " \o Thrown

\* The errors of the fragments whose text could not be extracted, in order.
FailureLog ==
    LET failed == SelectSeq([k \in 1..Len(bib) |-> k], LAMBDA k : bib[k].throws)
    IN  [j \in 1..Len(failed) |-> FailureMessage(failed[j])]

\* C21: when the engine returned fragments, the citation list has one entry
\* per fragment in the engine's order; the entry of a fragment whose text
\* extraction failed is the placeholder with the fragment's position, every
\* other entry is the text of its fragment, and the errors of the result are
\* the validation errors followed by one error per failed fragment.
C21_FragmentFailureIsolated ==
    (RunAssembled /\ bib # <<>>) =>
        /\ Len(result.citations) = Len(bib)
        /\ \A k \in 1..Len(bib) :
              result.citations[k] =
                  IF bib[k].throws
                  THEN ProcessingPlaceholder \o NumStr(k)
                  ELSE cleanText(bib[k].html)
        /\ result.errors = validationErrors \o FailureLog

\* A run of three fragments in which only the second failed.
C21_Witness ==
    /\ RunAssembled
    /\ Len(bib) = 3
    /\ ~bib[1].throws /\ bib[2].throws /\ ~bib[3].throws
    /\ result.citations[1] = cleanText(EntryMarkup("item_1"))
    /\ result.citations[3] = cleanText(EntryMarkup("item_3"))
    /\ Len(FailureLog) = 1

(***************************************************************************)
(* Properties of the spreadsheet URL                                       *)
(***************************************************************************)
\* The characters an ID is written with.
SegmentChars ==
    {UpperChars[k] : k \in 1..Len(UpperChars)} \cup {LowerChars[k] : k \in 1..Len(LowerChars)}
    \cup Digits \cup {"-", "_"}

\* The positions at which a '/d/<ID>' segment begins.
SegmentStarts(url) ==
    {i \in 1..(Len(url) - 3) :
        /\ url[i] = "/" /\ url[i + 1] = "d" /\ url[i + 2] = "/"
        /\ url[i + 3] \in SegmentChars}

HasIdSegment(url) == SegmentStarts(url) # {}

\* The ID of the first segment: the ID characters that follow its marker.
SheetId(url) ==
    LET i    == CHOOSE k \in SegmentStarts(url) : \A j \in SegmentStarts(url) : k <= j
        rest == SubSeq(url, i + 3, Len(url))
        n    == CHOOSE m \in 1..Len(rest) :
                    /\ \A j \in 1..m : rest[j] \in SegmentChars
                    /\ m = Len(rest) \/ rest[m + 1] \notin SegmentChars
    IN  SubSeq(rest, 1, n)

\* C22: a click with a URL that has no '/d/<ID>' segment ends the run at
\* once, with no request issued and the fatal result of the invalid-URL
\* message stored; a click with a URL that has one requests the export URL
\* made of the fixed template and that ID, and nothing else.
C22_SheetUrl ==
    [][IF HasIdSegment(gsheetUrl)
       THEN /\ pc' = "fetchSheet"
            /\ isLoading'
            /\ result' = NullResult
            /\ requests' = <<ExportPrefix \o SheetId(gsheetUrl) \o ExportSuffix>>
       ELSE /\ pc' = "idle"
            /\ ~isLoading'
            /\ requests' = <<>>
            /\ result' = fatalResult(InvalidUrlMessage)]_vars

\* A URL with the marker but no ID behind it has been rejected.
C22_Witness ==
    /\ gsheetUrl = <<"d", "/", "d", "/", ".">>
    /\ pc = "idle"
    /\ requests = <<>>
    /\ result = fatalResult(InvalidUrlMessage)

\* The ID is taken behind the first marker that has one, up to the first
\* character that is not an ID character.
C22_WitnessExport ==
    /\ gsheetUrl = <<"/", "d", "/", "/", "d", "/", "a", "-", ".">>
    /\ pc = "fetchSheet"
    /\ requests = <<ExportPrefix \o <<"a", "-">> \o ExportSuffix>>

(***************************************************************************)
(* Properties of the checks of handleGeneration                            *)
(***************************************************************************)
\* Neither input is given, or the libraries are not loaded.
NothingToRun == (~Truthy(gsheetUrl) /\ csvFile = NoFile) \/ ~librariesLoaded

C23_WitnessLibraries ==
    /\ csvFile = "data.csv"
    /\ ~librariesLoaded
    /\ status.type = "error"
    /\ result = NullResult
    /\ ~isLoading

(***************************************************************************)
(* Properties of the DOI and the URL of an item                            *)
(***************************************************************************)
\* The URL cell of a row.
LinkCell(row) == FirstTruthy(row, <<"URL", "url">>)

\* The DOI column sets a field: its identifier is an address or a DOI.
DoiColumnSets(row) ==
    StartsWith(Identifier(row), HttpPrefix) \/ StartsWith(Identifier(row), DoiPrefix)

\* C24: no item has both a DOI and a URL; the URL of the URL column is
\* stored only when the DOI column set neither field and the trimmed cell
\* starts with 'http', and then it is the trimmed cell; every stored URL
\* starts with 'http'.
C24_DoiXorUrl ==
    ConvertDone =>
        \A i \in 1..Len(cslItems) :
            LET row  == jsonData[i]
                item == cslItems[i]
            IN  /\ ~("DOI" \in DOMAIN item /\ "URL" \in DOMAIN item)
                /\ "URL" \in DOMAIN item => StartsWith(item["URL"], HttpPrefix)
                /\ IF DoiColumnSets(row)
                   THEN "URL" \in DOMAIN item => item["URL"] = Identifier(row)
                   ELSE IF StartsWith(Trim(LinkCell(row)), HttpPrefix)
                   THEN "URL" \in DOMAIN item /\ item["URL"] = Trim(LinkCell(row))
                   ELSE "URL" \notin DOMAIN item

(***************************************************************************)
(* Properties of the issue of an item                                      *)
(***************************************************************************)
\* The Issue cell of a row.
IssueCell(row) == FirstTruthy(row, <<"Issue", "issue">>)

\* C25: the volume of an item is what the extractor gives for the volume
\* cell, whatever the Issue column holds; the issue is the one the extractor
\* gives if it gives one, otherwise the trimmed Issue cell if that cell is
\* not empty, otherwise the item has none.
C25_IssueFallback ==
    ConvertDone =>
        \A i \in 1..Len(cslItems) :
            LET extracted == VolumeIssueOf(VolumeCell(jsonData[i]))
                item      == cslItems[i]
            IN  /\ PropOf(item, "volume") = extracted.volume
                /\ IF extracted.issue # <<>>
                   THEN "issue" \in DOMAIN item /\ item["issue"] = extracted.issue
                   ELSE IF IssueCell(jsonData[i]) # <<>>
                   THEN "issue" \in DOMAIN item /\ item["issue"] = Trim(IssueCell(jsonData[i]))
                   ELSE "issue" \notin DOMAIN item

\* The volume cell '12(3)' with the Issue cell '4': the issue is 3.
C25_Witness ==
    /\ ConvertDone
    /\ VolumeCell(jsonData[1]) = <<"1", "2", "(", "3", ")">>
    /\ IssueCell(jsonData[1]) = <<"4">>
    /\ cslItems[1]["volume"] = <<"1", "2">>
    /\ cslItems[1]["issue"] = <<"3">>

\* The volume cell '12' with the Issue cell ' 5 ': the issue is 5.
C25_WitnessColumn ==
    /\ ConvertDone
    /\ VolumeCell(jsonData[1]) = <<"1", "2">>
    /\ IssueCell(jsonData[1]) = <<" ", "5", " ">>
    /\ cslItems[1]["volume"] = <<"1", "2">>
    /\ cslItems[1]["issue"] = <<"5">>

(***************************************************************************)
(* Properties of the two input sources                                     *)
(***************************************************************************)
\* C26: the URL field and the chosen CSV file are never both set; and a run
\* begins with exactly one of them set and reads that one: it requests the
\* sheet if the URL is set and reads the file otherwise.
C26_OneSource ==
    /\ [](~(Truthy(gsheetUrl) /\ csvFile # NoFile))
    /\ [][RunBegins =>
              /\ Truthy(gsheetUrl) # (csvFile # NoFile)
              /\ pc' = (IF Truthy(gsheetUrl) THEN "fetchSheet" ELSE "readFile")]_vars

\* While the sheet of a run is being fetched, the user has chosen a file:
\* the URL the run was started from is cleared.
C26_Witness ==
    /\ pc = "fetchSheet"
    /\ csvFile = "data.csv"
    /\ gsheetUrl = <<>>

(***************************************************************************)
(* Properties of the library check                                         *)
(***************************************************************************)
\* Both globals are on window.
BothGlobals == windowCSL /\ windowPapa

C27_WitnessRetry ==
    /\ librariesLoaded
    /\ ~polling
    /\ status = Status("External libraries loaded successfully (after retry).", "success")

(***************************************************************************)
(* Properties of the end of a run                                          *)
(***************************************************************************)
\* C28: a run that has set isLoading, all it awaits settling, sets it back
\* to false and leaves a result that is not null; the step that ends a run
\* stores one, a stored result is replaced by null only by the step that
\* starts a run, and while the result is null and no run is in progress
\* nothing has been requested, parsed, built or rendered.
C28_RunSettles ==
    /\ isLoading ~> (~isLoading /\ result # NullResult)
    /\ [][(isLoading /\ ~isLoading') => result' # NullResult]_vars
    /\ [][(result # NullResult /\ result' = NullResult) => (~isLoading /\ isLoading')]_vars
    /\ []((~isLoading /\ result = NullResult) =>
             (requests = <<>> /\ jsonData = <<>> /\ cslItems = <<>> /\ rendererCalls = 0))

\* A run that had parsed its rows has ended in the failure of a fetch.
C28_Witness ==
    /\ ~isLoading
    /\ result = fatalResult("Failed to fetch")
    /\ jsonData # <<>>

(***************************************************************************)
(* The result assembler of the unnamed variant                             *)
(***************************************************************************)
\* C29: in the unnamed variant every row of the parsed input carries, in its
\* citation column, the sentinel 'Skipped due to validation errors.' if the
\* validator rejected the item of the row, and otherwise the citation
\* rendered for the item of that row (the placeholder where the renderer
\* returned none for it); no row carries the citation rendered for the item
\* of another row, whatever rows were rejected before it.
C29_SentinelOrOwnCitation ==
    RunAssembled =>
        /\ Len(result.csvData) = Len(jsonData)
        /\ \A i \in 1..Len(result.csvData) :
              /\ OutCitation(i) =
                    IF Rejected(i) THEN SkippedSentinel
                    ELSE IF /\ ValidRank(i) <= Len(result.citations)
                            /\ result.citations[ValidRank(i)] # <<>>
                    THEN result.citations[ValidRank(i)]
                    ELSE CouldNotGenerate
              /\ \A j \in 1..Len(result.csvData) :
                    j # i => OutCitation(i) # RenderedFor(j)

(***************************************************************************)
(* The two variants side by side                                           *)
(***************************************************************************)
\* The lower-case column names App.tsx reads and the variant does not.
LowerCaseAliases ==
    {"type", "title", "author", "year", "container-title", "volume", "issue",
     "page", "doi", "url", "publisher"}

\* The parsed input uses none of the lower-case column names.
OnlyCapitalised ==
    \A i \in 1..Len(jsonData) : DOMAIN jsonData[i] \cap LowerCaseAliases = {}

\* What App.tsx builds from the parsed input, and what its validator returns.
AppItems == buildItems(jsonData)

AppValidated == validateCslItems(AppItems)

\* Neither variant rejects an item of the parsed input.
NoneRejected ==
    /\ Len(AppValidated.valid) = Len(jsonData)
    /\ Len(validateCslItems(buildItems_unnamed(jsonData)).valid) = Len(jsonData)

\* The step of the variant is the step App.tsx takes from the same rows,
\* style and locale: the same items, the same valid items and validation
\* errors and, for the engine behaving the same way (the same ids handed
\* over, the same fragments, the same failure), the same result and status.
SameAsApp ==
    LET items     == buildItems(jsonData)
        validated == validateCslItems(items)
        ids       == [i \in 1..Len(validated.valid) |-> validated.valid[i].id]
    IN  /\ pc = "convert" =>
              /\ cslItems' = items
              /\ validItems' = validated.valid
              /\ validationErrors' = validated.errors
        /\ pc = "render" =>
              \E engine \in EngineBehaviours(ids) :
                  /\ engine.fragments = bib'
                  /\ LET rendered == generateCitations(validated.valid, cslStyle, enLocale,
                                                       windowCSL, engine)
                     IN  /\ itemIDs' = rendered.itemIDs
                         /\ result' = assembledResult(jsonData, items, validated.valid,
                                                      validated.errors, rendered)
                         /\ status' = finalStatus(rendered)

\* C30: on inputs that use only the capitalised column names and of which
\* no item is rejected, the unnamed variant builds the Citation Items
\* App.tsx builds and, the renderer returning the same, stores the result
\* App.tsx stores: the same success flag, citations, errors, warnings and
\* csvData.
C30_VariantsAgree ==
    [][(OnlyCapitalised /\ NoneRejected) => SameAsApp]_vars

\* C30: the variant has assembled the result of three capitalised rows, none
\* rejected, of which the renderer returned the first two citations; the
\* third row carries the placeholder.
C30_Witness ==
    /\ RunAssembled
    /\ OnlyCapitalised
    /\ NoneRejected
    /\ jsonData = <<RowBook, RowJournal, RowWebpage>>
    /\ result.success
    /\ Len(result.citations) = 2
    /\ result.warnings = <<>>
    /\ OutCitation(2) = RenderedFor(2)
    /\ OutCitation(3) = CouldNotGenerate

=============================================================================
